---------------------------- MODULE Spec2Model ----------------------------
(* Verification model of the aion-pay frontend credit-line client:          *)
(*   src/src/lib/contractUtils.ts      unit conversion, credit state reader, *)
(*                                     signer wrappers, error taxonomy       *)
(*   src/unnamed/part_000              StakeCollateral view                  *)
(*   src/src/pages/borrow/Dashboard.tsx  BorrowerDashboard / repayment       *)
(*                                                                          *)
(* A JavaScript number holding a USDC amount is modelled as an exact        *)
(* decimal with seven fractional digits: micro = whole base units (10^-6),  *)
(* sub = one further digit (10^-7), value = micro*10^-6 + sub*10^-7, in     *)
(* floor form (0 <= sub <= 9, micro may be negative).  NaN is a value.      *)
(* The one place where the binary representation of such a number decides  *)
(* the outcome, the product in usdcToUnits, is computed as a double.       *)
EXTENDS Integers, Sequences, FiniteSets, TLC

(***************************************************************************)
(* JavaScript numbers                                                      *)
(***************************************************************************)
UNITS_PER_USDC == 1000000

Num(m, s) == [micro |-> m, sub |-> s, nan |-> FALSE]

NaN == [micro |-> 0, sub |-> 0, nan |-> TRUE]

\* n whole base units as a number of USDC (n / 1000000)
Micro(n) == Num(n, 0)

\* a literal with two fractional digits, e.g. Usdc(250, 1) is 250.01
Usdc(whole, cents) == Num(whole * UNITS_PER_USDC + cents * (UNITS_PER_USDC \div 100), 0)

Zero == Num(0, 0)

\* JavaScript falsiness of a number: !x holds for NaN and for 0
IsFalsy(x) == x.nan \/ (x.micro = 0 /\ x.sub = 0)

\* a < b; every comparison with NaN is false
Lt(a, b) ==
    /\ ~a.nan
    /\ ~b.nan
    /\ \/ a.micro < b.micro
       \/ (a.micro = b.micro /\ a.sub < b.sub)

Gt(a, b) == Lt(b, a)

Le(a, b) == ~a.nan /\ ~b.nan /\ ~Lt(b, a)

\* a === b on numbers (NaN equals nothing)
StrictEq(a, b) == ~a.nan /\ ~b.nan /\ a.micro = b.micro /\ a.sub = b.sub

Plus(a, b) ==
    IF a.nan \/ b.nan THEN NaN
    ELSE LET s == a.sub + b.sub
         IN  Num(a.micro + b.micro + (s \div 10), s % 10)

Minus(a, b) ==
    IF a.nan \/ b.nan THEN NaN
    ELSE LET s == a.sub - b.sub
         IN  IF s < 0 THEN Num(a.micro - b.micro - 1, s + 10)
                      ELSE Num(a.micro - b.micro, s)

MathMax(a, b) == IF a.nan \/ b.nan THEN NaN ELSE IF Lt(a, b) THEN b ELSE a

MathMin(a, b) == IF a.nan \/ b.nan THEN NaN ELSE IF Lt(b, a) THEN b ELSE a

(***************************************************************************)
(* IEEE-754 double arithmetic of usdcToUnits.  A JavaScript number written *)
(* as the decimal micro*10^-6 + sub*10^-7 is the double nearest to that    *)
(* decimal; usdcAmount * 1000000 is the double nearest to the exact        *)
(* product (round to nearest, ties to even).  Both roundings are computed  *)
(* exactly on natural numbers held as little-endian sequences of base-100  *)
(* limbs, since they exceed the range of the model checker's integers.     *)
(***************************************************************************)
LimbBase == 100

RECURSIVE Big(_)
Big(n) == IF n = 0 THEN <<>> ELSE <<n % LimbBase>> \o Big(n \div LimbBase)

RECURSIVE BigTrim(_)
BigTrim(a) ==
    IF a = <<>> THEN <<>>
    ELSE IF a[Len(a)] = 0 THEN BigTrim(SubSeq(a, 1, Len(a) - 1))
    ELSE a

RECURSIVE BigToInt(_)
BigToInt(a) == IF a = <<>> THEN 0 ELSE a[1] + LimbBase * BigToInt(Tail(a))

\* a * c + carry for an integer 0 <= c <= 10^7
RECURSIVE BigMulCarry(_, _, _)
BigMulCarry(a, c, carry) ==
    IF a = <<>> THEN Big(carry)
    ELSE <<(a[1] * c + carry) % LimbBase>>
         \o BigMulCarry(Tail(a), c, (a[1] * c + carry) \div LimbBase)

BigMulSmall(a, c) == BigTrim(BigMulCarry(a, c, 0))

AppendDigit(res, digit) == [q |-> Append(res.q, digit), r |-> res.r]

\* quotient and remainder of the limbs a[1..i] below the remainder rem, by
\* an integer 0 < d <= 10^7
RECURSIVE BigDivFrom(_, _, _, _)
BigDivFrom(a, d, i, rem) ==
    IF i = 0 THEN [q |-> <<>>, r |-> rem]
    ELSE AppendDigit(BigDivFrom(a, d, i - 1, (rem * LimbBase + a[i]) % d),
                     (rem * LimbBase + a[i]) \div d)

TrimQuotient(res) == [q |-> BigTrim(res.q), r |-> res.r]

BigDivSmall(a, d) == TrimQuotient(BigDivFrom(a, d, Len(a), 0))

\* a < b on trimmed numbers
RECURSIVE BigLessFrom(_, _, _)
BigLessFrom(a, b, i) ==
    IF i = 0 THEN FALSE
    ELSE IF a[i] # b[i] THEN a[i] < b[i]
    ELSE BigLessFrom(a, b, i - 1)

BigLess(a, b) ==
    IF Len(a) # Len(b) THEN Len(a) < Len(b) ELSE BigLessFrom(a, b, Len(a))

RECURSIVE BigSucc(_)
BigSucc(a) ==
    IF a = <<>> THEN <<1>>
    ELSE IF a[1] + 1 < LimbBase THEN <<a[1] + 1>> \o Tail(a)
    ELSE <<0>> \o BigSucc(Tail(a))

RECURSIVE Pow2(_)
Pow2(n) == IF n = 0 THEN 1 ELSE 2 * Pow2(n - 1)

\* a * 2^n
RECURSIVE BigShiftLeft(_, _)
BigShiftLeft(a, n) ==
    IF n = 0 THEN a
    ELSE BigShiftLeft(BigMulSmall(a, Pow2(IF n >= 20 THEN 20 ELSE n)),
                      IF n >= 20 THEN n - 20 ELSE 0)

\* floor(a / 2^n)
RECURSIVE BigShiftRight(_, _)
BigShiftRight(a, n) ==
    IF n = 0 THEN a
    ELSE BigShiftRight(BigDivSmall(a, Pow2(IF n >= 20 THEN 20 ELSE n)).q,
                       IF n >= 20 THEN n - 20 ELSE 0)

\* the quotient res.q of a division by d with remainder res.r, rounded to
\* the nearest integer, ties to the even one
RoundQuotient(res, d) ==
    IF 2 * res.r > d \/ (2 * res.r = d /\ res.q # <<>> /\ res.q[1] % 2 = 1)
    THEN BigSucc(res.q) ELSE res.q

BigDivRound(a, d) == RoundQuotient(BigDivSmall(a, d), d)

\* 2^52 * 10^7 = 45035996273704960000000
NormalFloor == <<0, 0, 0, 60, 49, 70, 73, 62, 99, 35, 50, 4>>

\* 2^72 = 4722366482869645213696
TwoTo72 == <<96, 36, 21, 45, 96, 86, 82, 64, 36, 22, 47>>

\* for 0 < a < 2^52 * 10^7: the least k with a * 2^k >= 2^52 * 10^7, and
\* a * 2^k; found in steps of 16, 4 and 1 bits
RECURSIVE Normalize(_, _, _)
NormalizeTry(a, shifted, k, step) ==
    IF BigLess(shifted, NormalFloor) THEN Normalize(shifted, k + step, step)
    ELSE IF step > 1 THEN Normalize(a, k, step \div 4)
    ELSE [a |-> shifted, k |-> k + 1]

Normalize(a, k, step) == NormalizeTry(a, BigShiftLeft(a, step), k, step)

\* Math.floor (up = FALSE) or Math.ceil (up = TRUE) of the double
\* rounded * 2^-shift, whole being rounded without its bits below 2^0
WholeOf(rounded, whole, shift, up) ==
    IF up /\ BigShiftLeft(whole, shift) # rounded THEN BigToInt(whole) + 1
    ELSE BigToInt(whole)

WholeOfRounded(rounded, shift, up) ==
    WholeOf(rounded, BigShiftRight(rounded, shift), shift, up)

\* the exact product significand * 10^6 lies in (2^71, 2^73) and is rounded
\* to 53 bits: 19 or 20 bits are dropped
WholeOfExact(product, drop, k, up) ==
    WholeOfRounded(BigDivRound(product, Pow2(drop)), k - drop, up)

WholeOfSignificand(product, k, up) ==
    WholeOfExact(product, IF BigLess(product, TwoTo72) THEN 19 ELSE 20, k, up)

\* the significand of the double nearest to n.a * 2^-n.k / 10^7 is
\* round(n.a / 10^7), in [2^52, 2^53]
WholeOfNormal(n, up) ==
    WholeOfSignificand(BigMulSmall(BigDivRound(n.a, 10000000), UNITS_PER_USDC), n.k, up)

\* Math.floor or Math.ceil of usdcAmount * 1000000 for
\* usdcAmount = (10 * micro + sub) * 10^-7 > 0
WholeOfProduct(micro, sub, up) ==
    WholeOfNormal(Normalize(BigTrim(BigMulCarry(Big(micro), 10, sub)), 0, 16), up)

FloorOfProduct(micro, sub) == WholeOfProduct(micro, sub, FALSE)

\* Math.floor(-v) is -Math.ceil(v)
CeilOfProduct(micro, sub) == WholeOfProduct(micro, sub, TRUE)

\* the amounts the views and the library callers below convert, with their
\* base units computed once
TabulatedMicros ==
    {0, 1, 248, 249, 500000, 1000000, 2009999, 2010000, 14999999, 15000000,
     20000000, 30000000, 50000000, 100000000, 120000000, 230000000,
     250000000, 250010000}

UnitsTable ==
    {[amount |-> Num(m, s), units |-> FloorOfProduct(m, s)] :
        m \in TabulatedMicros \ {0}, s \in {0, 5}}

\* Math.floor(usdcAmount * 1000000).toString() on doubles: the product is
\* rounded before the floor, so an amount whose double lies just below a
\* whole number of base units loses one unit (2.01 gives "2009999")
usdcToUnits(usdcAmount) ==
    IF usdcAmount.nan THEN "NaN"
    ELSE IF usdcAmount.micro = 0 /\ usdcAmount.sub = 0 THEN 0
    ELSE IF \E row \in UnitsTable : row.amount = usdcAmount
        THEN (CHOOSE row \in UnitsTable : row.amount = usdcAmount).units
    ELSE IF usdcAmount.micro >= 0
        THEN FloorOfProduct(usdcAmount.micro, usdcAmount.sub)
    ELSE -CeilOfProduct(IF usdcAmount.sub = 0 THEN -usdcAmount.micro
                                              ELSE -usdcAmount.micro - 1,
                        (10 - usdcAmount.sub) % 10)

\* parseInt(units, 10) / 1000000
unitsToUsdc(units) == Micro(units)

(***************************************************************************)
(* Absent values                                                           *)
(***************************************************************************)
\* a null object reference
Null == [isNull |-> TRUE]

\* a null string (error / success message not set)
NoMsg == "<null>"

\* the outcome "the promise rejected": only a mutated reader produces it
Thrown == [thrown |-> TRUE]

(***************************************************************************)
(* Ledger query outcomes.  A rejected query carries an Error whose message *)
(* is abstracted to the set of marker substrings it contains, so that      *)
(* message.includes(s) is  s \in message.                                  *)
(***************************************************************************)
Includes(message, s) == s \in message

QueryOk(v) == [ok |-> TRUE, value |-> v, message |-> {}]

QueryFail(m) == [ok |-> FALSE, value |-> Null, message |-> m]

\* the tuple get_credit_info returns, in base units
CreditTuple(coll, lim, bor, int, rep, due, act) ==
    [collateralDeposited |-> coll, creditLimit |-> lim, borrowedAmount |-> bor,
     totalInterest |-> int, totalRepaid |-> rep, repaymentDueDate |-> due,
     isActive |-> act]

(***************************************************************************)
(* Credit State Reader (contractUtils.ts)                                  *)
(***************************************************************************)
\* the all-zero inactive position of both fallbacks
ZeroPosition ==
    [creditLimit |-> Zero, currentDebt |-> Zero, borrowed |-> Zero,
     interestAccrued |-> Zero, availableCredit |-> Zero, isActive |-> FALSE,
     repaymentDueDate |-> 0, collateral |-> Zero, totalRepaid |-> Zero]

\* the is_paused probe: true when the query resolves; the catch tells the
\* "resource not found" messages from the others and returns false for both
checkCreditManagerInitialized(probe) ==
    IF probe.ok THEN TRUE
    ELSE IF \/ Includes(probe.message, "Failed to borrow global resource")
            \/ Includes(probe.message, "resource_not_found")
            \/ Includes(probe.message, "Resource not found")
         THEN FALSE
         ELSE FALSE

\* a mutant: availableCredit without the clamp at 0
PositionOf_NoClamp(t) ==
    LET creditLimitUsdc == unitsToUsdc(t.creditLimit)
        borrowedUsdc    == unitsToUsdc(t.borrowedAmount)
        interestUsdc    == unitsToUsdc(t.totalInterest)
        currentDebtUsdc == Plus(borrowedUsdc, interestUsdc)
    IN  [creditLimit |-> creditLimitUsdc, currentDebt |-> currentDebtUsdc,
         borrowed |-> borrowedUsdc, interestAccrued |-> interestUsdc,
         availableCredit |-> Minus(creditLimitUsdc, currentDebtUsdc),
         isActive |-> t.isActive, repaymentDueDate |-> t.repaymentDueDate,
         collateral |-> unitsToUsdc(t.collateralDeposited),
         totalRepaid |-> unitsToUsdc(t.totalRepaid)]

\* the ledger-derived position built from a get_credit_info tuple
PositionOf(t) ==
    LET creditLimitUsdc == unitsToUsdc(t.creditLimit)
        borrowedUsdc    == unitsToUsdc(t.borrowedAmount)
        interestUsdc    == unitsToUsdc(t.totalInterest)
        currentDebtUsdc == Plus(borrowedUsdc, interestUsdc)
        availableCredit == Minus(creditLimitUsdc, currentDebtUsdc)
    IN  [creditLimit |-> creditLimitUsdc, currentDebt |-> currentDebtUsdc,
         borrowed |-> borrowedUsdc, interestAccrued |-> interestUsdc,
         availableCredit |-> MathMax(Zero, availableCredit),
         isActive |-> t.isActive, repaymentDueDate |-> t.repaymentDueDate,
         collateral |-> unitsToUsdc(t.collateralDeposited),
         totalRepaid |-> unitsToUsdc(t.totalRepaid)]

\* a mutant: the catch block rethrows what is not "function not found"
getCreditLineInfo_Rethrow(probe, info) ==
    IF ~checkCreditManagerInitialized(probe) THEN ZeroPosition
    ELSE IF info.ok THEN PositionOf(info.value)
    ELSE IF \/ Includes(info.message, "Function not found")
            \/ Includes(info.message, "FUNCTION_NOT_FOUND")
         THEN ZeroPosition
         ELSE Thrown

\* getCreditLineInfo on the outcomes of its two queries: the probe, then
\* get_credit_info; the try/catch turns a rejection into the zero position
\* ("function not found") or null
getCreditLineInfo(probe, info) ==
    LET creditManagerExists == checkCreditManagerInitialized(probe)
    IN  IF ~creditManagerExists THEN ZeroPosition
        ELSE IF info.ok THEN PositionOf(info.value)
        ELSE IF \/ Includes(info.message, "Function not found")
                \/ Includes(info.message, "FUNCTION_NOT_FOUND")
             THEN ZeroPosition
             ELSE Null

\* the all-zero status checkCollateralStatus returns for a null credit read
ZeroStatus ==
    [hasActiveCreditLine |-> FALSE, collateralAmount |-> Zero, creditLimit |-> Zero,
     currentDebt |-> Zero, availableCredit |-> Zero, canWithdraw |-> Zero]

\* a mutant: collateral is withdrawable whatever the debt
checkCollateralStatus_IgnoreDebt(creditInfo) ==
    IF creditInfo = Thrown THEN Null
    ELSE IF creditInfo = Null THEN ZeroStatus
    ELSE [hasActiveCreditLine |-> creditInfo.isActive,
          collateralAmount |-> creditInfo.collateral,
          creditLimit |-> creditInfo.creditLimit,
          currentDebt |-> creditInfo.currentDebt,
          availableCredit |-> creditInfo.availableCredit,
          canWithdraw |-> creditInfo.collateral]

\* checkCollateralStatus on the result of its getCreditLineInfo call
checkCollateralStatus(creditInfo) ==
    IF creditInfo = Thrown THEN Null
    ELSE IF creditInfo = Null THEN ZeroStatus
    ELSE LET canWithdraw == IF StrictEq(creditInfo.currentDebt, Zero)
                            THEN creditInfo.collateral ELSE Zero
         IN  [hasActiveCreditLine |-> creditInfo.isActive,
              collateralAmount |-> creditInfo.collateral,
              creditLimit |-> creditInfo.creditLimit,
              currentDebt |-> creditInfo.currentDebt,
              availableCredit |-> creditInfo.availableCredit,
              canWithdraw |-> canWithdraw]

\* fetchUsdcBalance on the outcome of its ordered chain of lookups: the
\* balance view, the account resources, the CoinStore resource, else 0
fetchUsdcBalance(lookup) ==
    IF lookup.path = "none" THEN Zero ELSE Micro(lookup.units)

(***************************************************************************)
(* Error taxonomy and payloads (contractUtils.ts)                          *)
(***************************************************************************)
\* a mutant: CREDIT_LINE_EXISTS is tested before EINSUFFICIENT_BALANCE
handleTransactionError_Reordered(message) ==
    IF Includes(message, "CREDIT_LINE_EXISTS")
        THEN "Credit line already exists for this account"
    ELSE IF Includes(message, "EINSUFFICIENT_BALANCE")
        THEN "Insufficient USDC balance for this transaction"
    ELSE IF Includes(message, "INSUFFICIENT_COLLATERAL")
        THEN "Insufficient collateral for the requested credit limit"
    ELSE IF Includes(message, "NOT_AUTHORIZED")
        THEN "Transaction not authorized. Please try again."
    ELSE IF Includes(message, "INVALID_AMOUNT")
        THEN "Please enter a valid amount"
    ELSE IF Includes(message, "INSUFFICIENT_LIQUIDITY")
        THEN "Not enough liquidity in the pool. Try a smaller amount."
    ELSE IF Includes(message, "EXCEEDS_CREDIT_LIMIT")
        THEN "This transaction exceeds your credit limit"
    ELSE "Transaction failed. Please try again."

\* handleTransactionError on the text of the signer's error
\* (error.message || error.toString()): the first code it includes decides
handleTransactionError(message) ==
    IF Includes(message, "EINSUFFICIENT_BALANCE")
        THEN "Insufficient USDC balance for this transaction"
    ELSE IF Includes(message, "CREDIT_LINE_EXISTS")
        THEN "Credit line already exists for this account"
    ELSE IF Includes(message, "INSUFFICIENT_COLLATERAL")
        THEN "Insufficient collateral for the requested credit limit"
    ELSE IF Includes(message, "NOT_AUTHORIZED")
        THEN "Transaction not authorized. Please try again."
    ELSE IF Includes(message, "INVALID_AMOUNT")
        THEN "Please enter a valid amount"
    ELSE IF Includes(message, "INSUFFICIENT_LIQUIDITY")
        THEN "Not enough liquidity in the pool. Try a smaller amount."
    ELSE IF Includes(message, "EXCEEDS_CREDIT_LIMIT")
        THEN "This transaction exceeds your credit limit"
    ELSE "Transaction failed. Please try again."

ADMIN_ADDRESS == "0xceb6"

Payload(fn, args) == [function |-> fn, functionArguments |-> args]

\* the payload stakeCollateralAndOpenCreditLine builds
StakePayload(collateralAmountUsdc) ==
    Payload("credit_manager::open_credit_line",
            <<ADMIN_ADDRESS, usdcToUnits(collateralAmountUsdc)>>)

\* the payload addMoreCollateral builds
AddPayload(additionalAmountUsdc) ==
    Payload("credit_manager::add_collateral",
            <<ADMIN_ADDRESS, usdcToUnits(additionalAmountUsdc)>>)

\* the payload withdrawCollateral builds
WithdrawPayload(withdrawAmountUsdc) ==
    Payload("credit_manager::withdraw_collateral",
            <<ADMIN_ADDRESS, usdcToUnits(withdrawAmountUsdc)>>)

\* the payload the dashboard's handleRepay builds
RepayPayload(principalAmount, interestAmount) ==
    Payload("credit_manager::repay",
            <<ADMIN_ADDRESS, usdcToUnits(principalAmount), usdcToUnits(interestAmount)>>)

getMinimumCollateralAmount == Usdc(1, 0)

(***************************************************************************)
(* Text of the amount inputs: <<>> is the empty string, <<x>> the decimal  *)
(* literal of x                                                            *)
(***************************************************************************)
EmptyText == <<>>

\* Number.prototype.toString
TextOf(x) == <<x>>

parseFloat(text) == IF text = EmptyText THEN NaN ELSE text[1]

(***************************************************************************)
(* Bounds and the values the environment (user, ledger, signer) supplies   *)
(***************************************************************************)
\* refreshes started by the wallet effect that may be in flight at once
MaxLoads == 1

\* what the user types into the staking view's amount input
StakeAmounts ==
    {TextOf(Usdc(0, 50)), TextOf(Usdc(1, 0)), TextOf(Num(1000000, 5)),
     TextOf(Usdc(250, 0)), TextOf(Usdc(250, 1))}

\* what the user types into the custom repayment input
RepayAmounts ==
    {TextOf(Zero), TextOf(Num(0, 5)), TextOf(Usdc(15, 0)), TextOf(Num(15000000, 5)),
     TextOf(Usdc(50, 0)), TextOf(Usdc(250, 0))}

\* outcomes of the balance lookup chain
LookupSamples ==
    {[path |-> "view", units |-> 500000000],
     [path |-> "resources", units |-> 30000000],
     [path |-> "none", units |-> 0]}

\* outcomes of the is_paused probe
ProbeSamples ==
    {QueryOk(FALSE), QueryFail({"Resource not found"}), QueryFail({"Network Error"})}

\* outcomes of get_credit_info
InfoSamples ==
    {QueryOk(CreditTuple(250000000, 250000000, 0, 0, 0, 0, TRUE)),
     QueryOk(CreditTuple(250000000, 250000000, 100000000, 20000000, 0, 1700000000, TRUE)),
     QueryFail({"Function not found"}),
     QueryFail({"Network Error"})}

\* messages of the errors the signer rejects with
SignerErrors == {{"EINSUFFICIENT_BALANCE"}, {"User rejected the request"}}

(***************************************************************************)
(* State                                                                   *)
(***************************************************************************)
VARIABLES
    view,               \* the mounted page: "stake" or "dashboard"
    connected,          \* useWallet().connected (an account is present)
    ops,                \* handler invocations suspended at an await
    loads,              \* effect-started refreshes in flight
    \* StakeCollateral (part_000)
    amount, loading, error, success, activeTab,
    usdcBalance, collateralStatus, loadingData,
    \* BorrowerDashboard and its OutstandingLoanCard (Dashboard.tsx)
    dLoading, dError, repayLoading, dUsdcBalance, creditData,
    reputationData, potentialIncrease, repayMode, customAmount, toast,
    \* history: the reads the refresh that completed last resumed with
    fetched,
    \* one run of the credit state reader
    rPc, rProbe, rInfo, rCreditInfo, rStatus,
    \* one run of another library function on its own: its arguments, its
    \* position and its result
    frame

walletVars == <<view, connected, ops, loads>>

stakeVars ==
    <<amount, loading, error, success, activeTab, usdcBalance, collateralStatus,
      loadingData>>

dashVars ==
    <<dLoading, dError, repayLoading, dUsdcBalance, creditData, reputationData,
      potentialIncrease, repayMode, customAmount, toast>>

readerVars == <<rPc, rProbe, rInfo, rCreditInfo, rStatus, frame>>

vars == <<walletVars, stakeVars, dashVars, readerVars, fetched>>

\* useState initial values of StakeCollateral
StakeInit ==
    /\ amount = EmptyText
    /\ loading = FALSE
    /\ error = NoMsg
    /\ success = NoMsg
    /\ activeTab = "stake"
    /\ usdcBalance = Zero
    /\ collateralStatus = Null
    /\ loadingData = FALSE

\* the reader is idle in the specifications of the views
ReaderIdle ==
    /\ rPc = "idle"
    /\ rProbe = Null
    /\ rInfo = Null
    /\ rCreditInfo = Null
    /\ rStatus = Null
    /\ frame = Null

(***************************************************************************)
(* StakeCollateral view (part_000)                                         *)
(***************************************************************************)
\* collateralStatus?.hasActiveCreditLine
HasActiveCreditLine ==
    collateralStatus # Null /\ collateralStatus.hasActiveCreditLine

\* collateralStatus?.canWithdraw || 0
CanWithdrawOrZero ==
    IF collateralStatus = Null THEN Zero ELSE collateralStatus.canWithdraw

\* the component renders its controls only when connected
StakeRendered == view = "stake" /\ connected

\* loadData up to its await: the closure's connected/account guard passed
\* when the caller was created, so the fetches are issued
StartLoadData == loadingData' = TRUE

\* what one refresh can read: the results of fetchUsdcBalance,
\* getCreditLineInfo and checkCollateralStatus over the sampled outcomes
BalanceReads == {fetchUsdcBalance(lookup) : lookup \in LookupSamples}

CreditReads == {getCreditLineInfo(probe, info) : probe \in ProbeSamples, info \in InfoSamples}

StatusReads == {checkCollateralStatus(creditInfo) : creditInfo \in CreditReads}

\* loadData after its await: both results are stored, then the finally
FinishLoadData(balance, status) ==
    /\ usdcBalance' = balance
    /\ collateralStatus' = status
    /\ loadingData' = FALSE
    /\ fetched' = [credit |-> status, balance |-> balance]

\* useEffect([connected, account?.address]) after the wallet connects
StakeWalletConnect ==
    /\ view = "stake"
    /\ ~connected
    /\ loads < MaxLoads
    /\ connected' = TRUE
    /\ StartLoadData
    /\ loads' = loads + 1
    /\ UNCHANGED <<view, ops, amount, loading, error, success, activeTab,
                   usdcBalance, collateralStatus>>
    /\ UNCHANGED <<dashVars, readerVars, fetched>>

\* the same effect after the user switches account in the wallet
StakeAccountChange ==
    /\ view = "stake"
    /\ connected
    /\ loads < MaxLoads
    /\ StartLoadData
    /\ loads' = loads + 1
    /\ UNCHANGED <<view, connected, ops, amount, loading, error, success,
                   activeTab, usdcBalance, collateralStatus>>
    /\ UNCHANGED <<dashVars, readerVars, fetched>>

\* the effect after a disconnect: loadData returns at its guard
StakeWalletDisconnect ==
    /\ view = "stake"
    /\ connected
    /\ connected' = FALSE
    /\ UNCHANGED <<view, ops, loads, stakeVars, dashVars, readerVars, fetched>>

\* an effect-started loadData resumes with the results of its two reads
StakeLoadDataDone ==
    /\ view = "stake"
    /\ loads > 0
    /\ \E balance \in BalanceReads, status \in StatusReads :
          FinishLoadData(balance, status)
    /\ loads' = loads - 1
    /\ UNCHANGED <<view, connected, ops, amount, loading, error, success, activeTab>>
    /\ UNCHANGED <<dashVars, readerVars>>

\* onChange of the amount input (disabled while loading)
SetAmount ==
    /\ StakeRendered
    /\ ~loading
    /\ \E text \in StakeAmounts : amount' = text
    /\ UNCHANGED <<walletVars, loading, error, success, activeTab, usdcBalance,
                   collateralStatus, loadingData, dashVars, readerVars, fetched>>

\* the Max button (disabled while loading)
MaxClick ==
    /\ StakeRendered
    /\ ~loading
    /\ amount' = IF activeTab \in {"stake", "add"}
                 THEN TextOf(usdcBalance)
                 ELSE TextOf(CanWithdrawOrZero)
    /\ UNCHANGED <<walletVars, loading, error, success, activeTab, usdcBalance,
                   collateralStatus, loadingData, dashVars, readerVars, fetched>>

\* the disabled attribute of each tab button
TabDisabled(tab) ==
    CASE tab = "stake"    -> HasActiveCreditLine
      [] tab = "add"      -> ~HasActiveCreditLine
      [] tab = "withdraw" -> ~HasActiveCreditLine \/ Le(CanWithdrawOrZero, Zero)

\* onClick of a tab button
SetActiveTab ==
    /\ StakeRendered
    /\ \E tab \in {"stake", "add", "withdraw"} :
          /\ ~TabDisabled(tab)
          /\ activeTab' = tab
    /\ UNCHANGED <<walletVars, amount, loading, error, success, usdcBalance,
                   collateralStatus, loadingData, dashVars, readerVars, fetched>>

\* a validation branch: setError(message); return
StakeReject(message) ==
    /\ error' = message
    /\ UNCHANGED <<ops, loading, success>>

\* setLoading(true); setError(null); setSuccess(null); then the wrapper
\* builds its payload and awaits signAndSubmitTransaction(payload)
StakeSubmit(op, amountNum, payload) ==
    /\ loading' = TRUE
    /\ error' = NoMsg
    /\ success' = NoMsg
    /\ ops' = Append(ops, [op |-> op, args |-> <<amountNum>>, payload |-> payload,
                           pc |-> "signer"])

\* a mutant: the minimum collateral is not enforced
handleStakeCollateral_NoMinimum ==
    LET amountNum == parseFloat(amount)
    IN  IF ~connected
            THEN StakeReject("Please connect your wallet")
        ELSE IF IsFalsy(amountNum)
            THEN StakeReject("Minimum amount is 1 USDC")
        ELSE IF Gt(amountNum, usdcBalance)
            THEN StakeReject("Insufficient USDC balance")
        ELSE StakeSubmit("stake", amountNum, StakePayload(amountNum))

\* a mutant: the balance is not checked before staking
handleStakeCollateral_NoBalanceCheck ==
    LET amountNum == parseFloat(amount)
        minAmount == getMinimumCollateralAmount
    IN  IF ~connected
            THEN StakeReject("Please connect your wallet")
        ELSE IF IsFalsy(amountNum) \/ Lt(amountNum, minAmount)
            THEN StakeReject("Minimum amount is 1 USDC")
        ELSE StakeSubmit("stake", amountNum, StakePayload(amountNum))

handleStakeCollateral ==
    LET amountNum == parseFloat(amount)
        minAmount == getMinimumCollateralAmount
    IN  IF ~connected
            THEN StakeReject("Please connect your wallet")
        ELSE IF IsFalsy(amountNum) \/ Lt(amountNum, minAmount)
            THEN StakeReject("Minimum amount is 1 USDC")
        ELSE IF Gt(amountNum, usdcBalance)
            THEN StakeReject("Insufficient USDC balance")
        ELSE StakeSubmit("stake", amountNum, StakePayload(amountNum))

\* a mutant: the balance is not checked
handleAddCollateral_NoBalanceCheck ==
    LET amountNum == parseFloat(amount)
    IN  IF ~connected
            THEN StakeReject("Please connect your wallet")
        ELSE IF IsFalsy(amountNum) \/ Le(amountNum, Zero)
            THEN StakeReject("Please enter a valid amount")
        ELSE StakeSubmit("add", amountNum, AddPayload(amountNum))

handleAddCollateral ==
    LET amountNum == parseFloat(amount)
    IN  IF ~connected
            THEN StakeReject("Please connect your wallet")
        ELSE IF IsFalsy(amountNum) \/ Le(amountNum, Zero)
            THEN StakeReject("Please enter a valid amount")
        ELSE IF Gt(amountNum, usdcBalance)
            THEN StakeReject("Insufficient USDC balance")
        ELSE StakeSubmit("add", amountNum, AddPayload(amountNum))

\* a mutant: the withdrawable limit is not checked
handleWithdrawCollateral_NoLimit ==
    LET amountNum == parseFloat(amount)
    IN  IF ~connected
            THEN StakeReject("Please connect your wallet")
        ELSE IF IsFalsy(amountNum) \/ Le(amountNum, Zero)
            THEN StakeReject("Please enter a valid amount")
        ELSE StakeSubmit("withdraw", amountNum, WithdrawPayload(amountNum))

handleWithdrawCollateral ==
    LET amountNum == parseFloat(amount)
    IN  IF ~connected
            THEN StakeReject("Please connect your wallet")
        ELSE IF IsFalsy(amountNum) \/ Le(amountNum, Zero)
            THEN StakeReject("Please enter a valid amount")
        ELSE IF collateralStatus = Null \/ Gt(amountNum, collateralStatus.canWithdraw)
            THEN StakeReject("Maximum withdrawable")
        ELSE StakeSubmit("withdraw", amountNum, WithdrawPayload(amountNum))

\* a mutant: the action button stays enabled while loading
SubmitDisabled_IgnoreLoading ==
    amount = EmptyText \/ Le(parseFloat(amount), Zero)

\* the disabled attribute of the action button
SubmitDisabled ==
    loading \/ amount = EmptyText \/ Le(parseFloat(amount), Zero)

\* onClick of the action button
handleSubmit ==
    /\ StakeRendered
    /\ ~SubmitDisabled
    /\ CASE activeTab = "stake"    -> handleStakeCollateral
         [] activeTab = "add"      -> handleAddCollateral
         [] activeTab = "withdraw" -> handleWithdrawCollateral
    /\ UNCHANGED <<view, connected, loads, amount, activeTab, usdcBalance,
                   collateralStatus, loadingData, dashVars, readerVars, fetched>>

\* the success message each handler sets (its amount left out)
SuccessMessage(op) ==
    CASE op = "stake"    -> "Successfully staked USDC as collateral!"
      [] op = "add"      -> "Successfully added USDC collateral!"
      [] op = "withdraw" -> "Successfully withdrew USDC collateral!"

\* ops without its i-th element
Without(seq, i) == SubSeq(seq, 1, i - 1) \o SubSeq(seq, i + 1, Len(seq))

\* a mutant: success is reported and loading cleared without a refresh
StakeSignerResolve_NoRefresh ==
    /\ view = "stake"
    /\ \E i \in DOMAIN ops :
          /\ ops[i].pc = "signer"
          /\ success' = SuccessMessage(ops[i].op)
          /\ amount' = EmptyText
          /\ ops' = Without(ops, i)
    /\ loading' = FALSE
    /\ UNCHANGED <<view, connected, loads, error, activeTab, usdcBalance,
                   collateralStatus, loadingData, dashVars, readerVars, fetched>>

\* the signer resolves: the wrapper returns {success: true}; the handler
\* sets the success message, clears the input and calls loadData
StakeSignerResolve ==
    /\ view = "stake"
    /\ \E i \in DOMAIN ops :
          /\ ops[i].pc = "signer"
          /\ success' = SuccessMessage(ops[i].op)
          /\ amount' = EmptyText
          /\ StartLoadData
          /\ ops' = [ops EXCEPT ![i].pc = "refresh"]
    /\ UNCHANGED <<view, connected, loads, loading, error, activeTab, usdcBalance,
                   collateralStatus, dashVars, readerVars, fetched>>

\* a mutant: a failed attempt also clears the amount input
StakeSignerReject_ClearsAmount ==
    /\ view = "stake"
    /\ \E i \in DOMAIN ops, message \in SignerErrors :
          /\ ops[i].pc = "signer"
          /\ error' = handleTransactionError(message)
          /\ ops' = Without(ops, i)
    /\ loading' = FALSE
    /\ amount' = EmptyText
    /\ UNCHANGED <<view, connected, loads, success, activeTab, usdcBalance,
                   collateralStatus, loadingData, dashVars, readerVars, fetched>>

\* a mutant: after a rejection the handler calls the signer again
StakeSignerReject_Retry ==
    /\ view = "stake"
    /\ \E i \in DOMAIN ops, message \in SignerErrors :
          /\ ops[i].pc = "signer"
          /\ error' = handleTransactionError(message)
          /\ ops' = ops
    /\ loading' = loading
    /\ UNCHANGED <<view, connected, loads, amount, success, activeTab, usdcBalance,
                   collateralStatus, loadingData, dashVars, readerVars, fetched>>

\* the signer rejects: the wrapper returns {success: false, error}; the
\* handler sets the error message, then the finally clears loading
StakeSignerReject ==
    /\ view = "stake"
    /\ \E i \in DOMAIN ops, message \in SignerErrors :
          /\ ops[i].pc = "signer"
          /\ error' = handleTransactionError(message)
          /\ ops' = Without(ops, i)
    /\ loading' = FALSE
    /\ UNCHANGED <<view, connected, loads, amount, success, activeTab, usdcBalance,
                   collateralStatus, loadingData, dashVars, readerVars, fetched>>

\* the handler's awaited loadData resumes, then the finally clears loading
\* a mutant: the finally block does not clear the busy flag
StakeRefreshDone_KeepsBusy ==
    /\ view = "stake"
    /\ \E i \in DOMAIN ops :
          /\ ops[i].pc = "refresh"
          /\ ops' = Without(ops, i)
    /\ \E balance \in BalanceReads, status \in StatusReads :
          FinishLoadData(balance, status)
    /\ loading' = loading
    /\ UNCHANGED <<view, connected, loads, amount, error, success, activeTab>>
    /\ UNCHANGED <<dashVars, readerVars>>

StakeRefreshDone ==
    /\ view = "stake"
    /\ \E i \in DOMAIN ops :
          /\ ops[i].pc = "refresh"
          /\ ops' = Without(ops, i)
    /\ \E balance \in BalanceReads, status \in StatusReads :
          FinishLoadData(balance, status)
    /\ loading' = FALSE
    /\ UNCHANGED <<view, connected, loads, amount, error, success, activeTab>>
    /\ UNCHANGED <<dashVars, readerVars>>

StakeNext ==
    \/ StakeWalletConnect
    \/ StakeAccountChange
    \/ StakeWalletDisconnect
    \/ StakeLoadDataDone
    \/ SetAmount
    \/ MaxClick
    \/ SetActiveTab
    \/ handleSubmit
    \/ StakeSignerResolve
    \/ StakeSignerReject
    \/ StakeRefreshDone

(***************************************************************************)
(* BorrowerDashboard and OutstandingLoanCard (Dashboard.tsx)               *)
(***************************************************************************)
\* outcomes of get_reputation_data
ReputationSamples ==
    {QueryOk([score |-> 700, tier |-> 2]), QueryFail({"Network Error"})}

\* outcomes of check_credit_increase_eligibility (newLimit in base units)
EligibilitySamples ==
    {QueryOk([eligible |-> TRUE, newLimit |-> 300000000]),
     QueryOk([eligible |-> FALSE, newLimit |-> 0]),
     QueryFail({"Network Error"})}

\* getReputationData(...).catch(() => null)
getReputationData(q) == IF q.ok THEN q.value ELSE Null

\* checkCreditIncreaseEligibility(...).catch(() => null)
checkCreditIncreaseEligibility(q) ==
    IF q.ok THEN [eligible |-> q.value.eligible, newLimit |-> unitsToUsdc(q.value.newLimit)]
    ELSE Null

ReputationReads == {getReputationData(q) : q \in ReputationSamples}

EligibilityReads == {checkCreditIncreaseEligibility(q) : q \in EligibilitySamples}

\* useState initial values, after the mount effect found no wallet and
\* cleared loading
DashInit ==
    /\ dLoading = FALSE
    /\ dError = NoMsg
    /\ repayLoading = FALSE
    /\ dUsdcBalance = Zero
    /\ creditData = Null
    /\ reputationData = Null
    /\ potentialIncrease = Zero
    /\ repayMode = "full"
    /\ customAmount = EmptyText
    /\ toast = NoMsg

\* the cards are rendered past the loading, error and connect screens and
\* only for an active credit line
CardVisibleWith(conn, ld, err, cd) ==
    conn /\ ~ld /\ err = NoMsg /\ cd # Null /\ cd.isActive

CardVisible ==
    view = "dashboard" /\ CardVisibleWith(connected, dLoading, dError, creditData)

\* the card's own state lives while the card is mounted: a render that
\* drops the card resets repayMode and customAmount to their initial values
CardState(mode, text) ==
    /\ repayMode' = IF CardVisibleWith(connected', dLoading', dError', creditData')
                    THEN mode ELSE "full"
    /\ customAmount' = IF CardVisibleWith(connected', dLoading', dError', creditData')
                       THEN text ELSE EmptyText

\* totalDebt of the card: principal + interest
TotalDebt == Plus(creditData.borrowed, creditData.interestAccrued)

\* loadDashboardData up to its await
StartLoadDashboardData ==
    /\ dLoading' = TRUE
    /\ dError' = NoMsg

\* loadDashboardData after its await
FinishLoadDashboardData(creditInfo, reputation, eligibility, balance) ==
    IF creditInfo = Thrown
    THEN /\ dError' = "Failed to load dashboard data. Please try again."
         /\ dLoading' = FALSE
         /\ UNCHANGED <<creditData, reputationData, potentialIncrease, dUsdcBalance,
                        fetched>>
    ELSE /\ creditData' = IF creditInfo # Null THEN creditInfo ELSE creditData
         /\ reputationData' = IF reputation # Null THEN reputation ELSE reputationData
         /\ potentialIncrease' =
                IF eligibility # Null /\ eligibility.eligible
                THEN Minus(eligibility.newLimit,
                           IF creditInfo = Null THEN Zero ELSE creditInfo.creditLimit)
                ELSE potentialIncrease
         /\ dUsdcBalance' = balance
         /\ dLoading' = FALSE
         /\ dError' = dError
         /\ fetched' = [credit |-> creditInfo, balance |-> balance,
                        eligibility |-> eligibility]

\* useEffect([connected, account?.address, loadDashboardData]) on connect
DashWalletConnect ==
    /\ view = "dashboard"
    /\ ~connected
    /\ loads < MaxLoads
    /\ connected' = TRUE
    /\ StartLoadDashboardData
    /\ loads' = loads + 1
    /\ UNCHANGED <<creditData, reputationData, potentialIncrease, dUsdcBalance,
                   repayLoading, toast>>
    /\ CardState(repayMode, customAmount)
    /\ UNCHANGED <<view, ops, stakeVars, readerVars, fetched>>

\* the same effect after the user switches account in the wallet
DashAccountChange ==
    /\ view = "dashboard"
    /\ connected
    /\ loads < MaxLoads
    /\ StartLoadDashboardData
    /\ loads' = loads + 1
    /\ UNCHANGED <<connected, creditData, reputationData, potentialIncrease,
                   dUsdcBalance, repayLoading, toast>>
    /\ CardState(repayMode, customAmount)
    /\ UNCHANGED <<view, ops, stakeVars, readerVars, fetched>>

\* the effect after a disconnect: setLoading(false)
DashWalletDisconnect ==
    /\ view = "dashboard"
    /\ connected
    /\ connected' = FALSE
    /\ dLoading' = FALSE
    /\ UNCHANGED <<dError, creditData, reputationData, potentialIncrease,
                   dUsdcBalance, repayLoading, toast>>
    /\ CardState(repayMode, customAmount)
    /\ UNCHANGED <<view, ops, loads, stakeVars, readerVars, fetched>>

\* an effect-started loadDashboardData resumes with its four results
DashLoadDone ==
    /\ view = "dashboard"
    /\ loads > 0
    /\ \E creditInfo \in CreditReads, reputation \in ReputationReads,
          eligibility \in EligibilityReads, balance \in BalanceReads :
          FinishLoadDashboardData(creditInfo, reputation, eligibility, balance)
    /\ loads' = loads - 1
    /\ UNCHANGED <<connected, repayLoading, toast>>
    /\ CardState(repayMode, customAmount)
    /\ UNCHANGED <<view, ops, stakeVars, readerVars>>

\* the Full Repayment / Custom Amount toggle (rendered while totalDebt > 0)
SetRepayMode ==
    /\ CardVisible
    /\ Gt(TotalDebt, Zero)
    /\ \E mode \in {"full", "custom"} : repayMode' = mode
    /\ UNCHANGED <<walletVars, stakeVars, readerVars, fetched, dLoading, dError, repayLoading,
                   dUsdcBalance, creditData, reputationData, potentialIncrease,
                   customAmount, toast>>

\* onChange of the custom amount input (rendered in custom mode)
SetCustomAmount ==
    /\ CardVisible
    /\ Gt(TotalDebt, Zero)
    /\ repayMode = "custom"
    /\ \E text \in RepayAmounts : customAmount' = text
    /\ UNCHANGED <<walletVars, stakeVars, readerVars, fetched, dLoading, dError, repayLoading,
                   dUsdcBalance, creditData, reputationData, potentialIncrease,
                   repayMode, toast>>

\* toast.error(message); return
RepayReject(message) ==
    /\ toast' = message
    /\ UNCHANGED <<ops, repayLoading>>

\* BorrowerDashboard.handleRepay up to its await
handleRepay(principalAmount, interestAmount) ==
    LET totalRepayment == Plus(principalAmount, interestAmount)
    IN  IF ~connected
            THEN UNCHANGED <<toast, ops, repayLoading>>
        ELSE IF Le(principalAmount, Zero) /\ Le(interestAmount, Zero)
            THEN UNCHANGED <<toast, ops, repayLoading>>
        ELSE IF Gt(totalRepayment, dUsdcBalance)
            THEN RepayReject("Insufficient USDC balance. You have less than you need")
        ELSE /\ repayLoading' = TRUE
             /\ toast' = "Processing repayment..."
             /\ ops' = Append(ops, [op |-> "repay",
                                    args |-> <<principalAmount, interestAmount>>,
                                    payload |-> RepayPayload(principalAmount, interestAmount),
                                    pc |-> "signer"])

\* a mutant: the split pays principal first
Allocate_PrincipalFirst(amountNum, interest) ==
    LET principalPayment == MathMin(amountNum, Minus(TotalDebt, interest))
        interestPayment  == Minus(amountNum, principalPayment)
    IN  [principalPayment |-> principalPayment, interestPayment |-> interestPayment]

\* the interest-first split of the custom mode
Allocate(amountNum, interest) ==
    LET interestPayment  == MathMin(amountNum, interest)
        principalPayment == Minus(amountNum, interestPayment)
    IN  [principalPayment |-> principalPayment, interestPayment |-> interestPayment]

\* a mutant: the custom amount is not compared with the total debt
CardHandleRepay_NoDebtCheck ==
    LET principal == creditData.borrowed
        interest  == creditData.interestAccrued
        amountNum == parseFloat(customAmount)
    IN  IF repayMode = "full"
            THEN handleRepay(principal, interest)
        ELSE IF IsFalsy(amountNum) \/ Le(amountNum, Zero)
            THEN RepayReject("Please enter a valid repayment amount")
        ELSE IF Gt(amountNum, dUsdcBalance)
            THEN RepayReject("Insufficient USDC balance")
        ELSE handleRepay(Allocate(amountNum, interest).principalPayment,
                         Allocate(amountNum, interest).interestPayment)

\* OutstandingLoanCard.handleRepay
CardHandleRepay ==
    LET principal == creditData.borrowed
        interest  == creditData.interestAccrued
        amountNum == parseFloat(customAmount)
    IN  IF repayMode = "full"
            THEN handleRepay(principal, interest)
        ELSE IF IsFalsy(amountNum) \/ Le(amountNum, Zero)
            THEN RepayReject("Please enter a valid repayment amount")
        ELSE IF Gt(amountNum, TotalDebt)
            THEN RepayReject("Amount exceeds total debt")
        ELSE IF Gt(amountNum, dUsdcBalance)
            THEN RepayReject("Insufficient USDC balance")
        ELSE handleRepay(Allocate(amountNum, interest).principalPayment,
                         Allocate(amountNum, interest).interestPayment)

\* the disabled attribute of the repay button
RepayDisabled == repayLoading

\* onClick of the repay button (rendered while totalDebt > 0)
RepayClick ==
    /\ CardVisible
    /\ Gt(TotalDebt, Zero)
    /\ ~RepayDisabled
    /\ CardHandleRepay
    /\ UNCHANGED <<view, connected, loads, stakeVars, readerVars, fetched, dLoading, dError,
                   dUsdcBalance, creditData, reputationData, potentialIncrease,
                   repayMode, customAmount>>

\* the signer resolves: success toast, then loadDashboardData is called
DashSignerResolve ==
    /\ view = "dashboard"
    /\ \E i \in DOMAIN ops :
          /\ ops[i].pc = "signer"
          /\ ops' = [ops EXCEPT ![i].pc = "refresh"]
    /\ toast' = "Repaid successfully!"
    /\ StartLoadDashboardData
    /\ UNCHANGED <<connected, creditData, reputationData, potentialIncrease,
                   dUsdcBalance, repayLoading>>
    /\ CardState(repayMode, customAmount)
    /\ UNCHANGED <<view, loads, stakeVars, readerVars, fetched>>

\* the signer rejects: error toast, then the finally clears repayLoading
DashSignerReject ==
    /\ view = "dashboard"
    /\ \E i \in DOMAIN ops, message \in SignerErrors :
          /\ ops[i].pc = "signer"
          /\ toast' = handleTransactionError(message)
          /\ ops' = Without(ops, i)
    /\ repayLoading' = FALSE
    /\ UNCHANGED <<view, connected, loads, stakeVars, readerVars, fetched, dLoading, dError,
                   dUsdcBalance, creditData, reputationData, potentialIncrease,
                   repayMode, customAmount>>

\* the handler's awaited loadDashboardData resumes, then the finally
DashRefreshDone ==
    /\ view = "dashboard"
    /\ \E i \in DOMAIN ops :
          /\ ops[i].pc = "refresh"
          /\ ops' = Without(ops, i)
    /\ \E creditInfo \in CreditReads, reputation \in ReputationReads,
          eligibility \in EligibilityReads, balance \in BalanceReads :
          FinishLoadDashboardData(creditInfo, reputation, eligibility, balance)
    /\ repayLoading' = FALSE
    /\ UNCHANGED <<connected, toast>>
    /\ CardState(repayMode, customAmount)
    /\ UNCHANGED <<view, loads, stakeVars, readerVars>>

DashNext ==
    \/ DashWalletConnect
    \/ DashAccountChange
    \/ DashWalletDisconnect
    \/ DashLoadDone
    \/ SetRepayMode
    \/ SetCustomAmount
    \/ RepayClick
    \/ DashSignerResolve
    \/ DashSignerReject
    \/ DashRefreshDone

(***************************************************************************)
(* The views: one page is mounted per session                              *)
(***************************************************************************)
Init ==
    /\ view \in {"stake", "dashboard"}
    /\ connected = FALSE
    /\ ops = <<>>
    /\ loads = 0
    /\ fetched = Null
    /\ StakeInit
    /\ DashInit
    /\ ReaderIdle

Next == StakeNext \/ DashNext

Spec == Init /\ [][Next]_vars

(***************************************************************************)
(* The credit state reader on its own: the outcomes of the two queries are *)
(* drawn in the initial state, then getCreditLineInfo and                  *)
(* checkCollateralStatus run on them                                       *)
(***************************************************************************)
\* outcomes of the is_paused probe: resolved, or rejected with a message
ProbeOutcomes ==
    {QueryOk(FALSE)} \cup
    {QueryFail(m) : m \in {{"Failed to borrow global resource"}, {"resource_not_found"},
                           {"Resource not found"}, {"Function not found"},
                           {"Network Error"}}}

\* the tuples get_credit_info may return
CreditTuples ==
    {CreditTuple(coll, lim, bor, int, rep, due, act) :
        coll \in {0, 250000000}, lim \in {0, 250000000},
        bor \in {0, 100000000, 300000000}, int \in {0, 20000000},
        rep \in {0, 50000000}, due \in {0, 1700000000}, act \in BOOLEAN}

\* outcomes of get_credit_info
InfoOutcomes ==
    {QueryOk(t) : t \in CreditTuples} \cup
    {QueryFail(m) : m \in {{"Function not found"}, {"FUNCTION_NOT_FOUND"},
                           {"Network Error"}}}

ReaderInit ==
    /\ view = "none"
    /\ connected = FALSE
    /\ ops = <<>>
    /\ loads = 0
    /\ StakeInit
    /\ DashInit
    /\ rPc = "start"
    /\ rProbe \in ProbeOutcomes
    /\ rInfo \in InfoOutcomes
    /\ rCreditInfo = Null
    /\ rStatus = Null
    /\ fetched = Null
    /\ frame = Null

\* checkCollateralStatus awaits getCreditLineInfo(userAddress)
ReadCreditLineInfo ==
    /\ rPc = "start"
    /\ rCreditInfo' = getCreditLineInfo(rProbe, rInfo)
    /\ rPc' = "credit"
    /\ UNCHANGED <<rProbe, rInfo, rStatus, walletVars, stakeVars, dashVars, fetched, frame>>

\* checkCollateralStatus derives the status from the credit read
ReadCollateralStatus ==
    /\ rPc = "credit"
    /\ rStatus' = checkCollateralStatus(rCreditInfo)
    /\ rPc' = "done"
    /\ UNCHANGED <<rProbe, rInfo, rCreditInfo, walletVars, stakeVars, dashVars, fetched, frame>>

ReaderNext == ReadCreditLineInfo \/ ReadCollateralStatus

ReaderSpec == ReaderInit /\ [][ReaderNext]_vars

(***************************************************************************)
(* Properties of the credit state reader (checked under ReaderSpec)        *)
(***************************************************************************)
\* getCreditLineInfo has returned a position (not null, not an exception)
ReaderHasPosition == rPc \in {"credit", "done"} /\ rCreditInfo \notin {Null, Thrown}

\* the probe rejected with one of the "resource not found" messages
ProbeResourceNotFound ==
    /\ ~rProbe.ok
    /\ rProbe.message \cap {"Failed to borrow global resource", "resource_not_found",
                            "Resource not found"} # {}

\* the get_credit_info query rejected with a "function not found" message
InfoFunctionNotFound ==
    /\ ~rInfo.ok
    /\ rInfo.message \cap {"Function not found", "FUNCTION_NOT_FOUND"} # {}

\* C6: every non-null position getCreditLineInfo returns has
\* currentDebt = borrowed + interestAccrued and
\* availableCredit = max(0, creditLimit - currentDebt), which is never
\* negative, also when the debt exceeds the limit.
C6_DerivedFields ==
    ReaderHasPosition =>
        /\ rCreditInfo.currentDebt.micro
              = rCreditInfo.borrowed.micro + rCreditInfo.interestAccrued.micro
        /\ rCreditInfo.currentDebt.sub = 0
        /\ rCreditInfo.availableCredit.sub = 0
        /\ rCreditInfo.availableCredit.micro >= 0
        /\ rCreditInfo.availableCredit.micro
              = IF rCreditInfo.creditLimit.micro >= rCreditInfo.currentDebt.micro
                THEN rCreditInfo.creditLimit.micro - rCreditInfo.currentDebt.micro
                ELSE 0

\* C6 witness: a ledger-derived position whose debt exceeds its limit
C6_Witness ==
    /\ ReaderHasPosition
    /\ rProbe.ok
    /\ rInfo.ok
    /\ rCreditInfo.currentDebt.micro > rCreditInfo.creditLimit.micro
    /\ rCreditInfo.interestAccrued.micro > 0
    /\ rCreditInfo.availableCredit = Zero

\* C7: every status checkCollateralStatus produces has canWithdraw = 0 when
\* currentDebt > 0 and canWithdraw = collateralAmount when currentDebt = 0;
\* for a null credit read it is the all-zero status.
C7_CanWithdraw ==
    rPc = "done" =>
        /\ rStatus # Null
        /\ rStatus.currentDebt.micro > 0 => rStatus.canWithdraw = Zero
        /\ rStatus.currentDebt = Zero => rStatus.canWithdraw = rStatus.collateralAmount
        /\ rCreditInfo = Null =>
              /\ ~rStatus.hasActiveCreditLine
              /\ rStatus.collateralAmount = Zero
              /\ rStatus.creditLimit = Zero
              /\ rStatus.currentDebt = Zero
              /\ rStatus.availableCredit = Zero
              /\ rStatus.canWithdraw = Zero

\* C7 witness: a status with collateral and outstanding debt
C7_Witness ==
    /\ rPc = "done"
    /\ rStatus.currentDebt.micro > 0
    /\ rStatus.collateralAmount.micro > 0
    /\ rStatus.canWithdraw = Zero

\* C8 (as claimed): a probe failure with "resource not found" yields the
\* inactive all-zero position, and a probe failure with any other error
\* yields null.
C8_ProbeFailureAsClaimed ==
    (rPc \in {"credit", "done"} /\ ~rProbe.ok) =>
        IF ProbeResourceNotFound
        THEN rCreditInfo = ZeroPosition
        ELSE rCreditInfo = Null

\* C9: getCreditLineInfo never throws: for every pair of query outcomes it
\* resolves to the ledger-derived position (both queries resolved), to the
\* all-zero inactive position (probe rejected, or "function not found"),
\* or to null (any other rejection of the get_credit_info query).
C9_NeverThrows ==
    rPc \in {"credit", "done"} =>
        /\ rCreditInfo # Thrown
        /\ (rProbe.ok /\ rInfo.ok) =>
              /\ rCreditInfo # Null
              /\ rCreditInfo.collateral.micro = rInfo.value.collateralDeposited
              /\ rCreditInfo.creditLimit.micro = rInfo.value.creditLimit
              /\ rCreditInfo.borrowed.micro = rInfo.value.borrowedAmount
              /\ rCreditInfo.interestAccrued.micro = rInfo.value.totalInterest
              /\ rCreditInfo.totalRepaid.micro = rInfo.value.totalRepaid
              /\ rCreditInfo.repaymentDueDate = rInfo.value.repaymentDueDate
              /\ rCreditInfo.isActive = rInfo.value.isActive
        /\ ~(rProbe.ok /\ rInfo.ok) => rCreditInfo \in {ZeroPosition, Null}
        /\ (rProbe.ok /\ ~rInfo.ok /\ ~InfoFunctionNotFound) => rCreditInfo = Null

\* C9 witness: the get_credit_info query rejected with a network error and
\* the read resolved to null
C9_Witness ==
    /\ rPc = "credit"
    /\ rProbe.ok
    /\ ~rInfo.ok
    /\ "Network Error" \in rInfo.message
    /\ rCreditInfo = Null

(***************************************************************************)
(* Properties of the two views (checked under Spec)                        *)
(***************************************************************************)
\* the busy flag of the mounted view
Busy == IF view = "stake" THEN loading ELSE repayLoading

\* invocations suspended in the signer call
PendingSigner == {i \in DOMAIN ops : ops[i].pc = "signer"}

\* this step hands a payload to the signer
SignerHanded == Len(ops') = Len(ops) + 1 /\ ops'[Len(ops')].pc = "signer"

\* the payload this step hands to the signer
HandedOp == ops'[Len(ops')]

\* this step resumes an invocation after the signer resolved
SignerSucceeded ==
    \E i \in DOMAIN ops :
        /\ ops[i].pc = "signer"
        /\ i \in DOMAIN ops'
        /\ ops' = [ops EXCEPT ![i].pc = "refresh"]

\* this step resumes an invocation after the signer rejected
SignerRejected ==
    \E i \in DOMAIN ops : ops[i].pc = "signer" /\ ops' = Without(ops, i)

\* this step resumes an invocation whose awaited refresh completed
RefreshCompleted ==
    \E i \in DOMAIN ops : ops[i].pc = "refresh" /\ ops' = Without(ops, i)

\* C1: a withdraw_collateral payload is handed to the signer only if the
\* requested amount is > 0, a collateral status has been loaded and the
\* amount is <= its canWithdraw, so never while the loaded status shows
\* debt; and with currentDebt = 0 and collateral = 250 a withdraw of exactly
\* 250 is handed to the signer while any larger amount is rejected.
C1_WithdrawOnlyWithinLimit ==
    [][
        /\ (SignerHanded /\ HandedOp.payload.function = "credit_manager::withdraw_collateral") =>
              /\ amount # EmptyText
              /\ Gt(parseFloat(amount), Zero)
              /\ collateralStatus # Null
              /\ Le(parseFloat(amount), collateralStatus.canWithdraw)
              /\ collateralStatus.currentDebt = Zero
              /\ HandedOp.payload.functionArguments[2] <= collateralStatus.canWithdraw.micro
        /\ (/\ handleSubmit
            /\ activeTab = "withdraw"
            /\ collateralStatus # Null
            /\ collateralStatus.currentDebt = Zero
            /\ collateralStatus.collateralAmount = Usdc(250, 0)) =>
              /\ amount = TextOf(Usdc(250, 0)) =>
                    /\ SignerHanded
                    /\ HandedOp.payload = Payload("credit_manager::withdraw_collateral",
                                                  <<ADMIN_ADDRESS, 250000000>>)
              /\ Gt(parseFloat(amount), Usdc(250, 0)) =>
                    /\ ops' = ops
                    /\ error' # NoMsg
                    /\ ~loading'
    ]_vars

\* C1 witness: a withdraw of exactly 250 is pending at the signer
C1_Witness ==
    /\ view = "stake"
    /\ \E i \in PendingSigner :
          /\ ops[i].op = "withdraw"
          /\ ops[i].args = <<Usdc(250, 0)>>
          /\ ops[i].payload.functionArguments[2] = 250000000

\* the validation rules of the staking view, from the amount, balance and
\* status on screen
StakeViewValid ==
    LET a == parseFloat(amount)
    IN  /\ amount # EmptyText
        /\ Gt(a, Zero)
        /\ CASE activeTab = "stake"    -> Le(Usdc(1, 0), a) /\ Le(a, usdcBalance)
             [] activeTab = "add"      -> Le(a, usdcBalance)
             [] activeTab = "withdraw" -> /\ collateralStatus # Null
                                          /\ Le(a, collateralStatus.canWithdraw)

\* the validation rules of a repayment
RepayValid ==
    LET a == parseFloat(customAmount)
    IN  IF repayMode = "full"
        THEN Le(TotalDebt, dUsdcBalance)
        ELSE /\ customAmount # EmptyText
             /\ Gt(a, Zero)
             /\ Le(a, TotalDebt)
             /\ Le(a, dUsdcBalance)

\* the messages a failed validation shows
ValidationMessages ==
    {"Please connect your wallet", "Minimum amount is 1 USDC", "Insufficient USDC balance",
     "Please enter a valid amount", "Maximum withdrawable",
     "Please enter a valid repayment amount", "Amount exceeds total debt",
     "Insufficient USDC balance. You have less than you need"}

\* C2: for stake, add, withdraw and repay, an attempt that fails the
\* client-side validation never invokes the signer: it ends with a
\* user-facing error, the busy flag is not set and no refresh is started.
C2_InvalidNeverReachesSigner ==
    [][
        /\ (handleSubmit /\ ~StakeViewValid) =>
              /\ ops' = ops
              /\ error' \in ValidationMessages
              /\ ~loading /\ ~loading'
              /\ loadingData' = loadingData
              /\ loads' = loads
        /\ (RepayClick /\ ~RepayValid) =>
              /\ ops' = ops
              /\ toast' \in ValidationMessages
              /\ ~repayLoading /\ ~repayLoading'
              /\ dLoading' = dLoading
              /\ loads' = loads
        /\ SignerHanded => IF view = "stake" THEN StakeViewValid ELSE RepayValid
    ]_vars

\* C2 witness: a stake below the minimum was refused without a signer call
C2_Witness ==
    /\ view = "stake"
    /\ activeTab = "stake"
    /\ amount = TextOf(Usdc(0, 50))
    /\ error = "Minimum amount is 1 USDC"
    /\ ops = <<>>
    /\ ~loading

\* C3: at most one operation is suspended in the signer call at any time; a
\* payload is handed to the signer only by a user trigger taken while the
\* busy flag is clear, so a trigger while busy neither reaches the signer
\* nor is kept for later.
C3_OneSubmissionAtATime ==
    /\ [](Cardinality(PendingSigner) <= 1 /\ Len(ops) <= 1)
    /\ [](ops # <<>> => Busy)
    /\ [][SignerHanded => (~Busy /\ Busy' /\ (handleSubmit \/ RepayClick))]_vars

\* C3 witness: a signer call is pending and the busy flag is set
C3_Witness ==
    /\ view = "dashboard"
    /\ Cardinality(PendingSigner) = 1
    /\ repayLoading

\* the step reports success to the user
SuccessReported ==
    \/ view = "stake" /\ success = NoMsg /\ success' # NoMsg
    \/ view = "dashboard" /\ toast # "Repaid successfully!" /\ toast' = "Repaid successfully!"

\* success is on display
SuccessShown ==
    \/ view = "stake" /\ success # NoMsg
    \/ view = "dashboard" /\ toast = "Repaid successfully!"

\* the amount input of the mounted view is empty
InputCleared ==
    IF view = "stake" THEN amount = EmptyText ELSE customAmount = EmptyText

\* the mounted view shows a refresh in progress
RefreshShown == IF view = "stake" THEN loadingData ELSE dLoading

\* C4 (as claimed): on signer success the re-fetch is started and completed
\* before success is reported, so success is never on display while the
\* operation's re-fetch is still in flight.
C4_SuccessOnlyAfterRefresh ==
    \A i \in DOMAIN ops : ops[i].pc = "refresh" => ~SuccessShown

\* C4 (amended): on signer success, for stake, add, withdraw and repay,
\* success is reported and the amount input is cleared in the step that
\* starts the full re-fetch; success is reported by no other step; the busy
\* flag stays set until that re-fetch has completed, which stores the
\* balance read by it.
C4_SuccessThenRefresh ==
    [][
        /\ SuccessReported <=> SignerSucceeded
        /\ SignerSucceeded =>
              /\ SuccessShown'
              /\ InputCleared'
              /\ RefreshShown'
              /\ Busy'
        /\ (Busy /\ ~Busy') => (RefreshCompleted \/ SignerRejected)
        /\ RefreshCompleted =>
              /\ ~Busy'
              /\ ~RefreshShown'
              /\ (IF view = "stake" THEN usdcBalance' ELSE dUsdcBalance') \in BalanceReads
    ]_vars

\* C4 witness: success is on display, the input is empty and the re-fetch
\* of the settled operation is in flight with the busy flag set
C4_Witness ==
    /\ view = "stake"
    /\ ops # <<>>
    /\ ops[1].pc = "refresh"
    /\ success # NoMsg
    /\ amount = EmptyText
    /\ loading
    /\ loadingData

\* the eight messages of the error taxonomy
TaxonomyMessages ==
    {"Insufficient USDC balance for this transaction",
     "Credit line already exists for this account",
     "Insufficient collateral for the requested credit limit",
     "Transaction not authorized. Please try again.",
     "Please enter a valid amount",
     "Not enough liquidity in the pool. Try a smaller amount.",
     "This transaction exceeds your credit limit",
     "Transaction failed. Please try again."}

\* C5: when the signer rejects, the credit position, collateral status,
\* balance and amount input are left unchanged and no refresh is started;
\* only the error message and the busy flag change, and the trigger is
\* enabled again for a new attempt.
C5_RejectionLeavesState ==
    [][
        SignerRejected =>
            /\ UNCHANGED <<usdcBalance, collateralStatus, amount, success, activeTab,
                           loadingData>>
            /\ UNCHANGED <<dUsdcBalance, creditData, reputationData, potentialIncrease,
                           customAmount, repayMode, dLoading, dError>>
            /\ UNCHANGED <<view, connected, loads>>
            /\ ops' = <<>>
            /\ ~Busy'
            /\ IF view = "stake"
               THEN error' \in TaxonomyMessages /\ ~SubmitDisabled'
               ELSE toast' \in TaxonomyMessages /\ ~RepayDisabled'
    ]_vars

\* C5 witness: a rejected stake left the amount in the input, an error on
\* display and the busy flag clear
C5_Witness ==
    /\ view = "stake"
    /\ ops = <<>>
    /\ ~loading
    /\ error = "Insufficient USDC balance for this transaction"
    /\ amount = TextOf(Usdc(250, 0))
    /\ collateralStatus # Null
    /\ usdcBalance = Usdc(500, 0)

C12_StakeAndAddWithinBalance ==
    [][
        /\ (SignerHanded /\ HandedOp.payload.function = "credit_manager::open_credit_line") =>
              /\ activeTab = "stake"
              /\ amount # EmptyText
              /\ Le(getMinimumCollateralAmount, parseFloat(amount))
              /\ Le(parseFloat(amount), usdcBalance)
              /\ HandedOp.payload.functionArguments
                    = <<ADMIN_ADDRESS, usdcToUnits(parseFloat(amount))>>
              /\ HandedOp.payload.functionArguments[2] >= UNITS_PER_USDC
              /\ HandedOp.payload.functionArguments[2] <= usdcBalance.micro
        /\ (SignerHanded /\ HandedOp.payload.function = "credit_manager::add_collateral") =>
              /\ activeTab = "add"
              /\ amount # EmptyText
              /\ Gt(parseFloat(amount), Zero)
              /\ Le(parseFloat(amount), usdcBalance)
              /\ HandedOp.payload.functionArguments
                    = <<ADMIN_ADDRESS, usdcToUnits(parseFloat(amount))>>
              /\ HandedOp.payload.functionArguments[2] <= usdcBalance.micro
        /\ (/\ handleSubmit
            /\ activeTab = "stake"
            /\ amount = TextOf(Usdc(1, 0))
            /\ usdcBalance = Usdc(500, 0)) =>
              /\ SignerHanded
              /\ HandedOp.payload = Payload("credit_manager::open_credit_line",
                                            <<ADMIN_ADDRESS, 1000000>>)
    ]_vars

\* C12 witness: with balance 500 a stake of the minimum 1 is pending at the
\* signer with base-unit argument 1000000
C12_Witness ==
    /\ view = "stake"
    /\ usdcBalance = Usdc(500, 0)
    /\ \E k \in PendingSigner :
          /\ ops[k].op = "stake"
          /\ ops[k].args = <<Usdc(1, 0)>>
          /\ ops[k].payload = Payload("credit_manager::open_credit_line",
                                      <<ADMIN_ADDRESS, 1000000>>)

\* C13 (as claimed): after every completed refresh the stored credit
\* position and the stored balance are both the ones that refresh read; a
\* refresh whose credit read is null does not leave the position of an
\* earlier refresh next to the balance it fetched.
C13_RefreshReplacesTogether ==
    fetched # Null =>
        IF view = "stake"
        THEN usdcBalance = fetched.balance /\ collateralStatus = fetched.credit
        ELSE dUsdcBalance = fetched.balance /\ creditData = fetched.credit

\* this step surfaces a signer rejection to the user
RejectionSurfaced ==
    /\ PendingSigner # {}
    /\ \/ view = "stake" /\ error' # error /\ error' \in TaxonomyMessages
       \/ view = "dashboard" /\ toast' # toast /\ toast' \in TaxonomyMessages

\* C15: a user trigger that passes validation invokes the signer exactly
\* once; no other step invokes it; once a rejection is surfaced no signer
\* call is left pending and the busy flag is clear, so a further call needs
\* a new user trigger.
C15_NoAutomaticRetry ==
    [][
        /\ ((handleSubmit /\ StakeViewValid) \/ (RepayClick /\ RepayValid)) =>
              /\ Len(ops') = Len(ops) + 1
              /\ Cardinality(PendingSigner') = Cardinality(PendingSigner) + 1
              /\ SubSeq(ops', 1, Len(ops)) = ops
        /\ ~(handleSubmit \/ RepayClick) =>
              /\ Len(ops') <= Len(ops)
              /\ Cardinality(PendingSigner') <= Cardinality(PendingSigner)
        /\ RejectionSurfaced =>
              /\ PendingSigner' = {}
              /\ ops' = <<>>
              /\ ~Busy'
              /\ UNCHANGED <<loads, loadingData, dLoading>>
    ]_vars

\* C15 witness: the wallet refused a repayment; the error toast is shown,
\* nothing is pending and the repay button is enabled again
C15_Witness ==
    /\ CardVisible
    /\ toast = "Transaction failed. Please try again."
    /\ ops = <<>>
    /\ ~RepayDisabled
    /\ Gt(TotalDebt, Zero)

(***************************************************************************)
(* Library functions run on their own: the arguments are drawn in the      *)
(* initial state, the views are not mounted and the reader is idle         *)
(***************************************************************************)
NoView ==
    /\ view = "none"
    /\ connected = FALSE
    /\ ops = <<>>
    /\ loads = 0
    /\ fetched = Null
    /\ StakeInit
    /\ DashInit
    /\ rPc = "idle"
    /\ rProbe = Null
    /\ rInfo = Null
    /\ rCreditInfo = Null
    /\ rStatus = Null

offFrame ==
    <<walletVars, stakeVars, dashVars, fetched, rPc, rProbe, rInfo, rCreditInfo, rStatus>>

(***************************************************************************)
(* handleTransactionError on its own                                       *)
(***************************************************************************)
\* what the text of a signer error may include: the seven codes and
\* wording that holds none of them
ErrorMarkers ==
    {"EINSUFFICIENT_BALANCE", "CREDIT_LINE_EXISTS", "INSUFFICIENT_COLLATERAL",
     "NOT_AUTHORIZED", "INVALID_AMOUNT", "INSUFFICIENT_LIQUIDITY",
     "EXCEEDS_CREDIT_LIMIT", "User rejected the request"}

TaxonomyInit ==
    /\ NoView
    /\ frame \in {[fn |-> "handleTransactionError", message |-> m, pc |-> "call",
                   result |-> NoMsg] : m \in SUBSET ErrorMarkers}

\* a catch block calls handleTransactionError(error)
ClassifyError ==
    /\ frame.pc = "call"
    /\ frame' = [frame EXCEPT !.pc = "done",
                              !.result = handleTransactionError(frame.message)]
    /\ UNCHANGED offFrame

TaxonomyNext == ClassifyError

TaxonomySpec == TaxonomyInit /\ [][TaxonomyNext]_vars

\* the fixed order of the codes and the category message of each
TaxonomyOrder ==
    <<"EINSUFFICIENT_BALANCE", "CREDIT_LINE_EXISTS", "INSUFFICIENT_COLLATERAL",
      "NOT_AUTHORIZED", "INVALID_AMOUNT", "INSUFFICIENT_LIQUIDITY",
      "EXCEEDS_CREDIT_LIMIT">>

CategoryMessage ==
    <<"Insufficient USDC balance for this transaction",
      "Credit line already exists for this account",
      "Insufficient collateral for the requested credit limit",
      "Transaction not authorized. Please try again.",
      "Please enter a valid amount",
      "Not enough liquidity in the pool. Try a smaller amount.",
      "This transaction exceeds your credit limit">>

\* C14: handleTransactionError maps every error text to exactly one of the
\* eight fixed messages: a text including a known code maps to that code's
\* message, a text including none maps to the generic message, and when
\* several codes occur the first in the order EINSUFFICIENT_BALANCE,
\* CREDIT_LINE_EXISTS, INSUFFICIENT_COLLATERAL, NOT_AUTHORIZED,
\* INVALID_AMOUNT, INSUFFICIENT_LIQUIDITY, EXCEEDS_CREDIT_LIMIT wins.
C14_TaxonomyTotalAndOrdered ==
    frame.pc = "done" =>
        LET present == {k \in DOMAIN TaxonomyOrder : TaxonomyOrder[k] \in frame.message}
        IN  /\ frame.result \in TaxonomyMessages
            /\ Cardinality(TaxonomyMessages) = 8
            /\ present = {} => frame.result = "Transaction failed. Please try again."
            /\ present # {} =>
                  \E k \in present :
                      /\ \A j \in present : k <= j
                      /\ frame.result = CategoryMessage[k]

\* C14 witness: a text with the first and the last code of the order was
\* classified by the first
C14_Witness ==
    /\ frame.pc = "done"
    /\ {"EINSUFFICIENT_BALANCE", "CREDIT_LINE_EXISTS", "EXCEEDS_CREDIT_LIMIT"}
          \subseteq frame.message
    /\ frame.result = "Insufficient USDC balance for this transaction"

(***************************************************************************)
(* getRecentTransactions on its own (contractUtils.ts).  A raw event is a  *)
(* record [type, data]; a field the ledger left out is missing from the    *)
(* record.  Amount fields hold the integer their decimal string denotes.   *)
(* The date of a record (the transaction's time relative to the clock) is  *)
(* not modelled.                                                           *)
(***************************************************************************)
CONTRACT_ADDRESS == "0xceb6"

BorrowedEvent == "0xceb6::credit_manager::BorrowedEvent"

DirectPaymentEvent == "0xceb6::credit_manager::DirectPaymentEvent"

RepaidEvent == "0xceb6::credit_manager::RepaidEvent"

CollateralAddedEvent == "0xceb6::credit_manager::CollateralAddedEvent"

CollateralWithdrawnEvent == "0xceb6::credit_manager::CollateralWithdrawnEvent"

CreditOpenedEvent == "0xceb6::credit_manager::CreditOpenedEvent"

EVENT_TYPE_MAP ==
    (BorrowedEvent :> "borrow") @@ (DirectPaymentEvent :> "payment") @@
    (RepaidEvent :> "repay") @@ (CollateralAddedEvent :> "stake") @@
    (CollateralWithdrawnEvent :> "collateral_withdrawn") @@
    (CreditOpenedEvent :> "credit_opened")

\* parseInt(data.field || "0", 10): a missing field counts as 0
FieldOrZero(data, field) == IF field \in DOMAIN data THEN data[field] ELSE 0

\* a mutant: the amount of a repay record is its principal component only
RecordAmount_PrincipalOnly(txType, data) ==
    IF txType = "repay"
        THEN unitsToUsdc(FieldOrZero(data, "principal_amount"))
    ELSE IF txType = "credit_opened"
        THEN unitsToUsdc(FieldOrZero(data, "collateral_amount"))
    ELSE unitsToUsdc(FieldOrZero(data, "amount"))

\* the amount of the record built from an event of kind txType
RecordAmount(txType, data) ==
    IF txType = "repay"
        THEN LET principal == FieldOrZero(data, "principal_amount")
                 interest  == FieldOrZero(data, "interest_amount")
             IN  unitsToUsdc(principal + interest)
    ELSE IF txType = "credit_opened"
        THEN unitsToUsdc(FieldOrZero(data, "collateral_amount"))
    ELSE unitsToUsdc(FieldOrZero(data, "amount"))

\* a mutant: the borrower of the event is not compared with the address
ExamineEvent_AnyBorrower(txn, event, borrowerAddress) ==
    IF event.type \notin DOMAIN EVENT_TYPE_MAP
        THEN [outcome |-> "skip"]
    ELSE IF "data" \notin DOMAIN event
        THEN [outcome |-> "throw"]
    ELSE [outcome |-> "push",
          record |-> [type |-> EVENT_TYPE_MAP[event.type],
                      amount |-> RecordAmount(EVENT_TYPE_MAP[event.type], event.data),
                      status |-> "completed",
                      hash |-> txn.version]]

\* the body of the inner loop for one event: continue (skip), a TypeError
\* on event.data of an event without data (throw), or results.push(record)
ExamineEvent(txn, event, borrowerAddress) ==
    IF event.type \notin DOMAIN EVENT_TYPE_MAP
        THEN [outcome |-> "skip"]
    ELSE IF /\ "data" \in DOMAIN event
            /\ "borrower" \in DOMAIN event.data
            /\ event.data.borrower # borrowerAddress
        THEN [outcome |-> "skip"]
    ELSE IF "data" \notin DOMAIN event
        THEN [outcome |-> "throw"]
    ELSE [outcome |-> "push",
          record |-> [type |-> EVENT_TYPE_MAP[event.type],
                      amount |-> RecordAmount(EVENT_TYPE_MAP[event.type], event.data),
                      status |-> "completed",
                      hash |-> txn.version]]

\* results.slice(0, limit) for limit >= 0
Slice(results, limit) ==
    SubSeq(results, 1, IF Len(results) < limit THEN Len(results) ELSE limit)

\* bounds of the raw log and of the limit argument
MaxTxns == 3

MaxLimit == 4

\* the queried address and another account's address
Borrower == "0xb0b"

Stranger == "0xa11ce"

\* the transactions a raw log is made of
TxnSamples ==
    { \* two accepted events in one transaction
      [version |-> 11, success |-> TRUE,
       events |-> <<[type |-> BorrowedEvent,
                     data |-> [borrower |-> Borrower, amount |-> 100000000]],
                    [type |-> RepaidEvent,
                     data |-> [borrower |-> Borrower, principal_amount |-> 30000000,
                               interest_amount |-> 20000000, amount |-> 1]]>>],
      \* a failed transaction
      [version |-> 12, success |-> FALSE,
       events |-> <<[type |-> BorrowedEvent,
                     data |-> [borrower |-> Borrower, amount |-> 100000000]]>>],
      \* another account's event, an event of a foreign kind, an accepted one
      [version |-> 13, success |-> TRUE,
       events |-> <<[type |-> RepaidEvent,
                     data |-> [borrower |-> Stranger, principal_amount |-> 5000000,
                               interest_amount |-> 0]],
                    [type |-> "0x1::coin::WithdrawEvent", data |-> [amount |-> 7000000]],
                    [type |-> CreditOpenedEvent,
                     data |-> [borrower |-> Borrower, collateral_amount |-> 250000000,
                               amount |-> 2]]>>],
      \* no success flag, no borrower field, no amount fields
      [version |-> 14,
       events |-> <<[type |-> CollateralAddedEvent, data |-> [pool |-> "usdc"]],
                    [type |-> RepaidEvent, data |-> [interest_amount |-> 4000000]]>>],
      \* no events
      [version |-> 15, success |-> TRUE],
      \* an event without data
      [version |-> 16, success |-> TRUE,
       events |-> <<[type |-> DirectPaymentEvent]>>],
      \* the two remaining kinds
      [version |-> 17, success |-> TRUE,
       events |-> <<[type |-> DirectPaymentEvent,
                     data |-> [borrower |-> Borrower, amount |-> 5000000]],
                    [type |-> CollateralWithdrawnEvent,
                     data |-> [borrower |-> Borrower, amount |-> 250000000]]>>] }

\* the raw logs: every sequence of at most MaxTxns sampled transactions
RECURSIVE LogsOfLength(_)
LogsOfLength(n) ==
    IF n = 0 THEN {<<>>}
    ELSE {Append(log, txn) : log \in LogsOfLength(n - 1), txn \in TxnSamples}

RawLogs == UNION {LogsOfLength(n) : n \in 0..MaxTxns}

\* outcomes of the fetch and of response.json()
FetchOutcomes ==
    {[kind |-> "ok", txns |-> log] : log \in RawLogs} \cup
    {[kind |-> k, txns |-> <<>>] :
        k \in {"httpError", "networkError", "badJson", "notIterable"}}

RecentInit ==
    /\ NoView
    /\ frame \in {[fn |-> "getRecentTransactions", borrowerAddress |-> Borrower,
                   fetch |-> f, limit |-> l, pc |-> "fetch", i |-> 0, j |-> 0,
                   results |-> <<>>, origins |-> <<>>, examined |-> <<>>,
                   threw |-> FALSE, returned |-> <<>>] :
                      f \in FetchOutcomes, l \in 0..MaxLimit}

\* return [] from the !response.ok branch, or from the catch block
ReturnEmpty(caught) ==
    frame' = [frame EXCEPT !.pc = "done", !.returned = <<>>, !.threw = caught]

\* await fetch(...); the response.ok test; await response.json(); the
\* for..of over txns starts
FetchAccountTransactions ==
    /\ frame.pc = "fetch"
    /\ CASE frame.fetch.kind = "ok" ->
                frame' = [frame EXCEPT !.pc = "txn", !.i = 1]
         [] frame.fetch.kind = "httpError" -> ReturnEmpty(FALSE)
         [] frame.fetch.kind \in {"networkError", "badJson", "notIterable"} ->
                ReturnEmpty(TRUE)
    /\ UNCHANGED offFrame

\* the head of the outer loop: a transaction without events or with
\* success === false is skipped by continue
ForEachTransaction ==
    /\ frame.pc = "txn"
    /\ IF frame.i > Len(frame.fetch.txns)
           THEN frame' = [frame EXCEPT !.pc = "return"]
       ELSE LET txn == frame.fetch.txns[frame.i]
            IN  IF \/ "events" \notin DOMAIN txn
                   \/ ("success" \in DOMAIN txn /\ txn.success = FALSE)
                    THEN frame' = [frame EXCEPT !.i = frame.i + 1]
                    ELSE frame' = [frame EXCEPT !.pc = "event", !.j = 1]
    /\ UNCHANGED offFrame

\* a mutant: the outer loop never breaks
ForEachEvent_NoBreak ==
    /\ frame.pc = "event"
    /\ LET txn == frame.fetch.txns[frame.i]
       IN  IF frame.j > Len(txn.events)
               THEN frame' = [frame EXCEPT !.pc = "txn", !.i = frame.i + 1]
           ELSE LET e == ExamineEvent(txn, txn.events[frame.j], frame.borrowerAddress)
                    seen == Append(frame.examined, <<frame.i, frame.j>>)
                IN  CASE e.outcome = "skip" ->
                            frame' = [frame EXCEPT !.j = frame.j + 1, !.examined = seen]
                      [] e.outcome = "throw" ->
                            frame' = [frame EXCEPT !.pc = "done", !.returned = <<>>,
                                                   !.threw = TRUE, !.examined = seen]
                      [] e.outcome = "push" ->
                            frame' = [frame EXCEPT
                                        !.j = frame.j + 1, !.examined = seen,
                                        !.results = Append(frame.results, e.record),
                                        !.origins = Append(frame.origins,
                                                           <<frame.i, frame.j>>)]
    /\ UNCHANGED offFrame

\* one turn of the inner loop, and after the last event of the transaction
\* the test  if (results.length >= limit) break
ForEachEvent ==
    /\ frame.pc = "event"
    /\ LET txn == frame.fetch.txns[frame.i]
       IN  IF frame.j > Len(txn.events)
               THEN IF Len(frame.results) >= frame.limit
                        THEN frame' = [frame EXCEPT !.pc = "return"]
                        ELSE frame' = [frame EXCEPT !.pc = "txn", !.i = frame.i + 1]
           ELSE LET e == ExamineEvent(txn, txn.events[frame.j], frame.borrowerAddress)
                    seen == Append(frame.examined, <<frame.i, frame.j>>)
                IN  CASE e.outcome = "skip" ->
                            frame' = [frame EXCEPT !.j = frame.j + 1, !.examined = seen]
                      [] e.outcome = "throw" ->
                            frame' = [frame EXCEPT !.pc = "done", !.returned = <<>>,
                                                   !.threw = TRUE, !.examined = seen]
                      [] e.outcome = "push" ->
                            frame' = [frame EXCEPT
                                        !.j = frame.j + 1, !.examined = seen,
                                        !.results = Append(frame.results, e.record),
                                        !.origins = Append(frame.origins,
                                                           <<frame.i, frame.j>>)]
    /\ UNCHANGED offFrame

\* a mutant: the results are returned without the slice
ReturnSlice_NoSlice ==
    /\ frame.pc = "return"
    /\ frame' = [frame EXCEPT !.pc = "done", !.returned = frame.results]
    /\ UNCHANGED offFrame

\* return results.slice(0, limit)
ReturnSlice ==
    /\ frame.pc = "return"
    /\ frame' = [frame EXCEPT !.pc = "done",
                              !.returned = Slice(frame.results, frame.limit)]
    /\ UNCHANGED offFrame

RecentNext ==
    \/ FetchAccountTransactions
    \/ ForEachTransaction
    \/ ForEachEvent
    \/ ReturnSlice

RecentSpec == RecentInit /\ [][RecentNext]_vars

(***************************************************************************)
(* Properties of getRecentTransactions (checked under RecentSpec)          *)
(***************************************************************************)
\* the events of a raw transaction (none when the field is missing)
EventsOf(txn) == IF "events" \in DOMAIN txn THEN txn.events ELSE <<>>

\* the positions <<transaction, event>> of a raw log in source order
RECURSIVE PositionsFrom(_, _)
PositionsFrom(log, i) ==
    IF i > Len(log) THEN <<>>
    ELSE [j \in 1..Len(EventsOf(log[i])) |-> <<i, j>>] \o PositionsFrom(log, i + 1)

\* the failure flag of the transaction is set
FailureFlagSet(txn) == "success" \in DOMAIN txn /\ txn.success = FALSE

\* the event carries a borrower field that differs from the queried address
BorrowerMismatch(event) ==
    /\ "data" \in DOMAIN event
    /\ "borrower" \in DOMAIN event.data
    /\ event.data.borrower # Borrower

\* the six allow-listed kinds
AllowListed ==
    {BorrowedEvent, DirectPaymentEvent, RepaidEvent, CollateralAddedEvent,
     CollateralWithdrawnEvent, CreditOpenedEvent}

\* the event at position p is one the feed accepts
Accepted(log, p) ==
    /\ ~FailureFlagSet(log[p[1]])
    /\ log[p[1]].events[p[2]].type \in AllowListed
    /\ ~BorrowerMismatch(log[p[1]].events[p[2]])

\* the positions of the accepted events, in source order
AcceptedPositions(log) ==
    SelectSeq(PositionsFrom(log, 1), LAMBDA p : Accepted(log, p))

\* the call has returned
Returned == frame.pc = "done"

\* the call returned the feed of a fetched, parsed log
ReturnedFeed == Returned /\ frame.fetch.kind = "ok" /\ ~frame.threw

\* C16: for every raw log and every limit >= 0, getRecentTransactions
\* returns at most limit records, taken from a prefix of the accepted
\* events in source order (transaction order, then event order within a
\* transaction); a failed fetch, a failed parse and an unreadable event
\* yield the empty feed, not an exception.
C16_BoundedPrefixOfAccepted ==
    Returned =>
        /\ Len(frame.returned) <= frame.limit
        /\ frame.fetch.kind # "ok" => frame.returned = <<>>
        /\ frame.threw => frame.returned = <<>>
        /\ frame.fetch.kind = "ok" =>
              LET log == frame.fetch.txns
                  acc == AcceptedPositions(log)
              IN  /\ Len(frame.returned) <= Len(acc)
                  /\ \A k \in 1..Len(frame.returned) :
                        /\ frame.origins[k] = acc[k]
                        /\ frame.returned[k].hash = log[acc[k][1]].version
                        /\ frame.returned[k].type
                              = EVENT_TYPE_MAP[log[acc[k][1]].events[acc[k][2]].type]

\* C16 witness: a log with more accepted events than the limit returned
\* exactly limit records
C16_Witness ==
    /\ ReturnedFeed
    /\ frame.limit = 2
    /\ Len(frame.returned) = 2
    /\ Len(AcceptedPositions(frame.fetch.txns)) > 2
    /\ \E i \in DOMAIN frame.fetch.txns : FailureFlagSet(frame.fetch.txns[i])

\* C17: no record of the returned feed comes from a transaction whose
\* failure flag is set, from an event whose borrower field differs from the
\* queried address, or from an event of a kind outside the six
\* allow-listed kinds; every other event produces a record until the limit
\* is reached.
C17_OnlyAcceptedEvents ==
    /\ Returned =>
          \A k \in 1..Len(frame.returned) :
              LET txn   == frame.fetch.txns[frame.origins[k][1]]
                  event == txn.events[frame.origins[k][2]]
              IN  /\ ~FailureFlagSet(txn)
                  /\ ~BorrowerMismatch(event)
                  /\ event.type \in AllowListed
    /\ ReturnedFeed =>
          LET acc == AcceptedPositions(frame.fetch.txns)
          IN  Len(frame.returned) = IF Len(acc) < frame.limit THEN Len(acc) ELSE frame.limit

\* C17 witness: a feed was returned from a log holding another account's
\* event and an event of a foreign kind, which left no record
C17_Witness ==
    /\ ReturnedFeed
    /\ frame.returned # <<>>
    /\ \E p \in {frame.examined[n] : n \in DOMAIN frame.examined} :
          BorrowerMismatch(frame.fetch.txns[p[1]].events[p[2]])
    /\ \E p \in {frame.examined[n] : n \in DOMAIN frame.examined} :
          frame.fetch.txns[p[1]].events[p[2]].type \notin AllowListed
    /\ Len(frame.returned) < frame.limit

\* this step examines a raw event
Examines == frame.pc = "event" /\ Len(frame'.examined) = Len(frame.examined) + 1

\* C18 (as claimed): the reconciler never examines a raw event once limit
\* results have been collected, also when the limit-th record came from the
\* middle of a multi-event transaction.
C18_StopsAtLimit ==
    [][(Examines /\ frame.limit >= 1) => Len(frame.results) < frame.limit]_vars

\* C18 (amended): the limit is tested only after the last event of a
\* scanned transaction: once results has reached limit no further
\* transaction is examined, but every remaining event of the transaction
\* that produced the limit-th record is examined and accumulated; the
\* returned sequence is results truncated to limit.
C18_StopsAfterTransaction ==
    [][
        /\ (Examines /\ frame.j = 1 /\ frame.examined # <<>>) =>
              Len(frame.results) < frame.limit
        /\ (frame.pc = "event" /\ frame.j <= Len(frame.fetch.txns[frame.i].events)) =>
              /\ Examines
              /\ frame'.examined[Len(frame'.examined)] = <<frame.i, frame.j>>
        /\ (frame.pc = "return" /\ frame'.pc = "done") =>
              /\ Len(frame'.returned) <= frame.limit
              /\ Len(frame'.returned) <= Len(frame.results)
              /\ Len(frame'.returned) \in {frame.limit, Len(frame.results)}
              /\ \A k \in 1..Len(frame'.returned) : frame'.returned[k] = frame.results[k]
    ]_vars

\* C18 witness: the limit-th record came from the first event of a
\* two-event transaction; the second event was examined and accumulated,
\* and the returned feed was truncated to the limit
C18_Witness ==
    /\ ReturnedFeed
    /\ frame.limit = 1
    /\ Len(frame.results) = 2
    /\ frame.origins = <<<<1, 1>>, <<1, 2>>>>
    /\ frame.examined = <<<<1, 1>>, <<1, 2>>>>
    /\ Len(frame.returned) = 1
    /\ Len(frame.fetch.txns) > 1

\* C19: the amount of every record is, for a repay event, the event's
\* principal component plus its interest component converted from base
\* units; for a credit_opened event, its collateral amount converted from
\* base units; for every other kind, its generic amount field converted
\* from base units; a missing field counts as 0.
C19_RecordAmounts ==
    \A k \in DOMAIN frame.results :
        LET event == frame.fetch.txns[frame.origins[k][1]].events[frame.origins[k][2]]
            d     == event.data
            units == CASE event.type = RepaidEvent ->
                            (IF "principal_amount" \in DOMAIN d THEN d.principal_amount ELSE 0)
                            + (IF "interest_amount" \in DOMAIN d THEN d.interest_amount ELSE 0)
                       [] event.type = CreditOpenedEvent ->
                            (IF "collateral_amount" \in DOMAIN d THEN d.collateral_amount ELSE 0)
                       [] OTHER ->
                            (IF "amount" \in DOMAIN d THEN d.amount ELSE 0)
        IN  /\ frame.results[k].amount.micro = units
            /\ frame.results[k].amount.sub = 0
            /\ ~frame.results[k].amount.nan

\* C19 witness: the returned feed holds a repay record of 30 + 20, a
\* credit_opened record of its collateral 250 and a record whose missing
\* amount field counts as 0
C19_Witness ==
    /\ ReturnedFeed
    /\ \E k \in DOMAIN frame.returned :
          frame.returned[k].type = "repay" /\ frame.returned[k].amount = Usdc(50, 0)
    /\ \E k \in DOMAIN frame.returned :
          frame.returned[k].type = "credit_opened" /\ frame.returned[k].amount = Usdc(250, 0)
    /\ \E k \in DOMAIN frame.returned :
          frame.returned[k].type = "stake" /\ frame.returned[k].amount = Zero

(***************************************************************************)
(* calculateAccruedInterest on its own (contractUtils.ts).  The principal  *)
(* is a whole number of USDC; the interest is kept exact as the fraction   *)
(* num / (perRate * perYear) USDC.  currentTime, which the code reads from *)
(* the clock, is an input.                                                 *)
(***************************************************************************)
secondsPerYear == 31536000

BasisPoints == 10000

DefaultGracePeriodSeconds == 2592000

Interest(n) == [num |-> n, perRate |-> BasisPoints, perYear |-> secondsPerYear]

\* a mutant: the grace period ends one second early
calculateAccruedInterest_GraceExclusive(principalUsdc, annualRateBasisPoints, borrowTimestamp, gracePeriodSeconds, currentTime) ==
    LET graceEndTime == borrowTimestamp + gracePeriodSeconds
    IN  IF currentTime < graceEndTime THEN Interest(0)
        ELSE Interest(principalUsdc * annualRateBasisPoints * (currentTime - graceEndTime + 1))

\* principalUsdc * ((annualRateBasisPoints / 10000) / 31536000) * timeElapsed
\* after the grace period, 0 up to its end
calculateAccruedInterest(principalUsdc, annualRateBasisPoints, borrowTimestamp, gracePeriodSeconds, currentTime) ==
    LET graceEndTime == borrowTimestamp + gracePeriodSeconds
    IN  IF currentTime <= graceEndTime THEN Interest(0)
        ELSE LET interestStartTime == graceEndTime
                 timeElapsed       == currentTime - interestStartTime
             IN  Interest(principalUsdc * annualRateBasisPoints * timeElapsed)

\* seconds past the end of the grace period the clock may reach
MaxElapsed == 3

\* the arguments of a call; gracePeriodSeconds may be left out
InterestArgs ==
    {[principalUsdc |-> p, annualRateBasisPoints |-> r, borrowTimestamp |-> t] :
        p \in {0, 1, 1000}, r \in {0, 1500}, t \in {1600000000, 1700000000}}
    \cup
    {[principalUsdc |-> p, annualRateBasisPoints |-> r, borrowTimestamp |-> t,
      gracePeriodSeconds |-> g] :
        p \in {0, 1, 1000}, r \in {0, 1500}, t \in {1600000000, 1700000000},
        g \in {0, 60}}

\* the grace period a call runs with: the argument, or the default
GraceOf(args) ==
    IF "gracePeriodSeconds" \in DOMAIN args THEN args.gracePeriodSeconds
    ELSE DefaultGracePeriodSeconds

GraceEnd(args) == args.borrowTimestamp + GraceOf(args)

InterestInit ==
    /\ NoView
    /\ \E args \in InterestArgs :
          frame \in {[fn |-> "calculateAccruedInterest", args |-> args, now |-> n,
                      calls |-> 0, at |-> 0, result |-> Interest(0)] :
                        n \in {args.borrowTimestamp, GraceEnd(args) - 1}}

\* a second passes (followed from one second before the end of the grace
\* period)
ClockTick ==
    /\ frame.now >= GraceEnd(frame.args) - 1
    /\ frame.now < GraceEnd(frame.args) + MaxElapsed
    /\ frame' = [frame EXCEPT !.now = frame.now + 1]
    /\ UNCHANGED offFrame

\* a call at the current time; the frame keeps the time and the result of
\* the latest call
CallAccruedInterest ==
    /\ frame.at < frame.now
    /\ frame' = [frame EXCEPT
                    !.calls = 1,
                    !.at = frame.now,
                    !.result = calculateAccruedInterest(
                                   frame.args.principalUsdc,
                                   frame.args.annualRateBasisPoints,
                                   frame.args.borrowTimestamp,
                                   GraceOf(frame.args),
                                   frame.now)]
    /\ UNCHANGED offFrame

InterestNext == ClockTick \/ CallAccruedInterest

InterestSpec == InterestInit /\ [][InterestNext]_vars

\* C20: calculateAccruedInterest returns 0 for every query time <=
\* borrowTimestamp + gracePeriodSeconds (2,592,000 when the argument is
\* left out); after that, for positive principal and rate, it returns a
\* strictly positive value equal to principal * (rateBps / 10000) /
\* 31,536,000 * elapsed, so each further second adds the same amount.
C20_GraceThenLinear ==
    /\ [](frame.calls = 1 =>
            LET graceEnd == frame.args.borrowTimestamp
                              + (IF "gracePeriodSeconds" \in DOMAIN frame.args
                                 THEN frame.args.gracePeriodSeconds ELSE 2592000)
                elapsed  == frame.at - graceEnd
            IN  /\ frame.result.perRate = 10000
                /\ frame.result.perYear = 31536000
                /\ frame.at <= graceEnd => frame.result.num = 0
                /\ frame.at > graceEnd =>
                      /\ frame.result.num
                            = frame.args.principalUsdc * frame.args.annualRateBasisPoints
                              * elapsed
                      /\ (frame.args.principalUsdc > 0 /\ frame.args.annualRateBasisPoints > 0)
                            => frame.result.num > 0)
    /\ [][(frame.calls = 1 /\ frame'.calls = 1 /\ frame'.at > frame.at
           /\ frame.at >= GraceEnd(frame.args)) =>
             frame'.result.num - frame.result.num
                = frame.args.principalUsdc * frame.args.annualRateBasisPoints
                  * (frame'.at - frame.at)]_vars

\* C20 witness: principal 1000 at 1500 basis points with the default grace
\* period, queried two seconds after the end of the grace period
C20_Witness ==
    /\ frame.calls = 1
    /\ frame.args = [principalUsdc |-> 1000, annualRateBasisPoints |-> 1500,
                     borrowTimestamp |-> 1700000000]
    /\ frame.at = 1702592002
    /\ frame.result.num = 3000000

(***************************************************************************)
(* usdcToUnits and unitsToUsdc on their own: an amount is converted to     *)
(* base units and back                                                     *)
(***************************************************************************)
\* amounts with up to six fractional digits (sub = 0) and with a seventh
RoundTripAmounts ==
    {Num(m, s) : m \in TabulatedMicros, s \in {0, 1, 5, 9}}

UnitsInit ==
    /\ NoView
    /\ frame \in {[fn |-> "usdcToUnits", x |-> x, pc |-> "call", units |-> 0,
                   back |-> Zero] : x \in RoundTripAmounts}

\* usdcToUnits(x)
ConvertToUnits ==
    /\ frame.pc = "call"
    /\ frame' = [frame EXCEPT !.pc = "units", !.units = usdcToUnits(frame.x)]
    /\ UNCHANGED offFrame

\* unitsToUsdc of the string just produced
ConvertBack ==
    /\ frame.pc = "units"
    /\ frame' = [frame EXCEPT !.pc = "done", !.back = unitsToUsdc(frame.units)]
    /\ UNCHANGED offFrame

UnitsNext == ConvertToUnits \/ ConvertBack

UnitsSpec == UnitsInit /\ [][UnitsNext]_vars

\* C21: for every non-negative amount x with at most six fractional digits
\* unitsToUsdc(usdcToUnits(x)) equals x exactly; for an amount with more
\* digits the round trip is x truncated toward zero to a multiple of 10^-6
\* and never exceeds x.
C21_RoundTripExact ==
    frame.pc = "done" =>
        /\ frame.x.sub = 0 => frame.back = frame.x
        /\ frame.x.sub > 0 =>
              /\ frame.back = Num(frame.x.micro, 0)
              /\ Le(frame.back, frame.x)


(***************************************************************************)
(* Payload builders (contractUtils.ts 432-480) next to the payloads the    *)
(* orchestrators build inline                                              *)
(***************************************************************************)
BuilderPayload(fn, args) ==
    [function |-> fn, functionArguments |-> args, typeArguments |-> <<>>]

openCreditLine(borrowerAddress, collateralAmountUsdc) ==
    BuilderPayload("credit_manager::open_credit_line",
                   <<ADMIN_ADDRESS, usdcToUnits(collateralAmountUsdc)>>)

addCollateral(borrowerAddress, collateralAmountUsdc) ==
    BuilderPayload("credit_manager::add_collateral",
                   <<ADMIN_ADDRESS, usdcToUnits(collateralAmountUsdc)>>)

borrowFunds(borrowerAddress, amountUsdc) ==
    BuilderPayload("credit_manager::borrow",
                   <<ADMIN_ADDRESS, usdcToUnits(amountUsdc)>>)

repayLoan_InterestFirst(borrowerAddress, principalUsdc, interestUsdc) ==
    BuilderPayload("credit_manager::repay",
                   <<ADMIN_ADDRESS, usdcToUnits(interestUsdc), usdcToUnits(principalUsdc)>>)

repayLoan(borrowerAddress, principalUsdc, interestUsdc) ==
    BuilderPayload("credit_manager::repay",
                   <<ADMIN_ADDRESS, usdcToUnits(principalUsdc), usdcToUnits(interestUsdc)>>)

\* collateral is managed through credit_manager: delegates to addCollateral
depositCollateral(borrowerAddress, amountUsdc) ==
    addCollateral(borrowerAddress, amountUsdc)

depositToLendingPool(lenderAddress, amountUsdc) ==
    BuilderPayload("lending_pool::deposit",
                   <<ADMIN_ADDRESS, usdcToUnits(amountUsdc)>>)

PayloadAmounts ==
    {Usdc(0, 50), Usdc(1, 0), Usdc(2, 1), Num(1000000, 5), Usdc(250, 1)}

\* the builders that take one amount, and those an orchestrator mirrors
OneAmountBuilders ==
    {"openCreditLine", "addCollateral", "borrowFunds", "depositCollateral",
     "depositToLendingPool"}

MirroredBuilders == {"openCreditLine", "addCollateral", "repayLoan"}

PayloadInit ==
    /\ NoView
    /\ frame \in
         {[fn |-> b, address |-> a, amounts |-> <<x>>, pc |-> "call",
           built |-> Null, inline |-> Null] :
             b \in OneAmountBuilders, a \in {Borrower, Stranger}, x \in PayloadAmounts}
         \cup
         {[fn |-> "repayLoan", address |-> a, amounts |-> <<p, i>>, pc |-> "call",
           built |-> Null, inline |-> Null] :
             a \in {Borrower, Stranger}, p \in PayloadAmounts, i \in PayloadAmounts}

\* a call of one of the pure builders
BuildPayload ==
    /\ frame.pc = "call"
    /\ frame' =
         [frame EXCEPT
            !.pc = "built",
            !.built =
               CASE frame.fn = "openCreditLine" ->
                        openCreditLine(frame.address, frame.amounts[1])
                 [] frame.fn = "addCollateral" ->
                        addCollateral(frame.address, frame.amounts[1])
                 [] frame.fn = "borrowFunds" ->
                        borrowFunds(frame.address, frame.amounts[1])
                 [] frame.fn = "depositCollateral" ->
                        depositCollateral(frame.address, frame.amounts[1])
                 [] frame.fn = "depositToLendingPool" ->
                        depositToLendingPool(frame.address, frame.amounts[1])
                 [] frame.fn = "repayLoan" ->
                        repayLoan(frame.address, frame.amounts[1], frame.amounts[2])]
    /\ UNCHANGED offFrame

\* the payload stakeCollateralAndOpenCreditLine, addMoreCollateral or the
\* dashboard's handleRepay builds inline from the same amounts
BuildInline ==
    /\ frame.pc = "built"
    /\ frame.fn \in MirroredBuilders
    /\ frame' =
         [frame EXCEPT
            !.pc = "inline",
            !.inline =
               CASE frame.fn = "openCreditLine" -> StakePayload(frame.amounts[1])
                 [] frame.fn = "addCollateral" -> AddPayload(frame.amounts[1])
                 [] frame.fn = "repayLoan" ->
                        RepayPayload(frame.amounts[1], frame.amounts[2])]
    /\ UNCHANGED offFrame

PayloadNext == BuildPayload \/ BuildInline

PayloadSpec == PayloadInit /\ [][PayloadNext]_vars

\* the one ledger function of each operation
LedgerFunction ==
    [openCreditLine |-> "credit_manager::open_credit_line",
     addCollateral |-> "credit_manager::add_collateral",
     depositCollateral |-> "credit_manager::add_collateral",
     borrowFunds |-> "credit_manager::borrow",
     repayLoan |-> "credit_manager::repay",
     depositToLendingPool |-> "lending_pool::deposit"]

\* C22: every builder yields the one ledger function of its operation with
\* the arguments <<administrative address, base units ...>>, repay carrying
\* principal before interest; the payload an orchestrator builds inline has
\* the same function and argument sequence as the pure builder for the same
\* amounts (withdraw_collateral has an inline payload only); building a
\* payload changes no state.
C22_BuildersAndInlineAgree ==
    /\ [](frame.pc # "call" =>
            /\ frame.built.function = LedgerFunction[frame.fn]
            /\ frame.built.functionArguments
                  = <<ADMIN_ADDRESS>>
                    \o [k \in 1..Len(frame.amounts) |-> usdcToUnits(frame.amounts[k])])
    /\ [](frame.pc = "inline" =>
            /\ frame.inline.function = frame.built.function
            /\ frame.inline.functionArguments = frame.built.functionArguments)
    /\ [](\A x \in PayloadAmounts :
            /\ WithdrawPayload(x).function = "credit_manager::withdraw_collateral"
            /\ WithdrawPayload(x).functionArguments = <<ADMIN_ADDRESS, usdcToUnits(x)>>)
    /\ [][frame' # frame => UNCHANGED offFrame]_vars

\* C22 witness: repayLoan and the dashboard's inline payload built for
\* principal 2.01 and interest 0.5
C22_Witness ==
    /\ frame.pc = "inline"
    /\ frame.fn = "repayLoan"
    /\ frame.amounts = <<Usdc(2, 1), Usdc(0, 50)>>
    /\ frame.built.functionArguments = <<ADMIN_ADDRESS, 2009999, 500000>>
    /\ frame.inline.functionArguments = <<ADMIN_ADDRESS, 2009999, 500000>>

\* C23: whenever the dashboard's potentialIncrease is non-zero it equals
\* newLimit - creditLimit for the eligibility result and the credit limit
\* (0 when the position could not be read) of the most recently completed
\* refresh.
C23_PotentialIncreaseCurrent ==
    (view = "dashboard" /\ fetched # Null /\ ~IsFalsy(potentialIncrease)) =>
        /\ fetched.eligibility # Null
        /\ fetched.eligibility.eligible
        /\ potentialIncrease
              = Minus(fetched.eligibility.newLimit,
                      IF fetched.credit = Null THEN Zero
                      ELSE fetched.credit.creditLimit)

\* C24: in the staking view an open_credit_line payload is handed to the
\* signer only when the loaded collateral status does not show an active
\* credit line.
C24_NoStakeWithActiveLine ==
    [][(view = "stake" /\ Len(ops') > Len(ops)
        /\ ops'[Len(ops')].payload.function = "credit_manager::open_credit_line")
          => ~(collateralStatus # Null /\ collateralStatus.hasActiveCreditLine)]_vars

(***************************************************************************)
(* The views with their promises settling: a pending signer call is        *)
(* eventually resolved or rejected by the wallet, and the refresh awaited  *)
(* by a handler eventually returns (every query of loadData and            *)
(* loadDashboardData settles, failures being caught)                       *)
(***************************************************************************)
SettlingSpec ==
    /\ Spec
    /\ WF_vars(StakeSignerResolve \/ StakeSignerReject \/ StakeRefreshDone
               \/ DashSignerResolve \/ DashSignerReject \/ DashRefreshDone)

\* C25: the busy flag (loading in the staking view, repayLoading in the
\* dashboard) is true while an operation is in flight (pending in the signer
\* or in its follow-up refresh) and false whenever none is; once set it is
\* eventually false again, whatever the outcome.
C25_BusyFlagFollowsOperation ==
    /\ [](view = "stake" => (loading <=> ops # <<>>))
    /\ [](view = "dashboard" => (repayLoading <=> ops # <<>>))
    /\ [](\A i \in DOMAIN ops : ops[i].pc \in {"signer", "refresh"})
    /\ ((loading \/ repayLoading) ~> (~loading /\ ~repayLoading))

\* C25 witness: a stake was signed, its refresh failed to read the status
\* (all-zero status stored), and the busy flag is clear again
C25_Witness ==
    /\ view = "stake"
    /\ success = SuccessMessage("stake")
    /\ ops = <<>>
    /\ ~loading
    /\ fetched # Null
    /\ fetched.credit = ZeroStatus

(***************************************************************************)
(* Overlapping refreshes.  loadData and loadDashboardData keep no request  *)
(* order: each call stores what its own queries returned when it resumes.  *)
(* The frame lists the refreshes in the order they were issued, each with  *)
(* the results its queries return, and the ones still awaited.             *)
(***************************************************************************)
MaxRefreshes == 2

OverlapInit ==
    /\ view \in {"stake", "dashboard"}
    /\ connected = TRUE
    /\ ops = <<>>
    /\ loads = 0
    /\ fetched = Null
    /\ StakeInit
    /\ DashInit
    /\ rPc = "idle"
    /\ rProbe = Null
    /\ rInfo = Null
    /\ rCreditInfo = Null
    /\ rStatus = Null
    /\ frame = [fn |-> "refresh", issued |-> <<>>, pending |-> {}, overlap |-> FALSE]

IssuedFrame(results) ==
    [frame EXCEPT !.issued = Append(frame.issued, results),
                  !.pending = frame.pending \cup {Len(frame.issued) + 1},
                  !.overlap = frame.overlap \/ frame.pending # {}]

\* a call of loadData (account change, or after a settled operation) up to
\* its await
IssueLoadData ==
    /\ view = "stake"
    /\ Len(frame.issued) < MaxRefreshes
    /\ StartLoadData
    /\ \E balance \in BalanceReads, status \in StatusReads :
          frame' = IssuedFrame([balance |-> balance, status |-> status])
    /\ UNCHANGED <<walletVars, amount, loading, error, success, activeTab, usdcBalance,
                   collateralStatus, dashVars, fetched, rPc, rProbe, rInfo,
                   rCreditInfo, rStatus>>

\* one of the awaited loadData calls resumes
ResumeLoadData ==
    /\ view = "stake"
    /\ \E k \in frame.pending :
          /\ FinishLoadData(frame.issued[k].balance, frame.issued[k].status)
          /\ frame' = [frame EXCEPT !.pending = frame.pending \ {k}]
    /\ UNCHANGED <<walletVars, amount, loading, error, success, activeTab, dashVars,
                   rPc, rProbe, rInfo, rCreditInfo, rStatus>>

\* a call of loadDashboardData up to its await
IssueLoadDashboardData ==
    /\ view = "dashboard"
    /\ Len(frame.issued) < MaxRefreshes
    /\ StartLoadDashboardData
    /\ \E creditInfo \in CreditReads, eligibility \in EligibilityReads,
          balance \in BalanceReads :
          frame' = IssuedFrame([creditInfo |-> creditInfo, eligibility |-> eligibility,
                                balance |-> balance])
    /\ UNCHANGED <<walletVars, creditData, reputationData, potentialIncrease,
                   dUsdcBalance, repayLoading, toast>>
    /\ CardState(repayMode, customAmount)
    /\ UNCHANGED <<stakeVars, fetched, rPc, rProbe, rInfo, rCreditInfo, rStatus>>

\* one of the awaited loadDashboardData calls resumes
ResumeLoadDashboardData ==
    /\ view = "dashboard"
    /\ \E k \in frame.pending, reputation \in ReputationReads :
          /\ FinishLoadDashboardData(frame.issued[k].creditInfo, reputation,
                                     frame.issued[k].eligibility,
                                     frame.issued[k].balance)
          /\ frame' = [frame EXCEPT !.pending = frame.pending \ {k}]
    /\ UNCHANGED <<walletVars, repayLoading, toast>>
    /\ CardState(repayMode, customAmount)
    /\ UNCHANGED <<stakeVars, rPc, rProbe, rInfo, rCreditInfo, rStatus>>

OverlapNext ==
    \/ IssueLoadData
    \/ ResumeLoadData
    \/ IssueLoadDashboardData
    \/ ResumeLoadDashboardData

OverlapSpec == OverlapInit /\ [][OverlapNext]_vars

\* the results of the refresh issued last
LastIssued == frame.issued[Len(frame.issued)]

\* C26: when two refreshes overlapped, the balance and credit state stored
\* once both have completed are the results of the refresh issued last,
\* whichever resolved first.
C26_LastIssuedWins ==
    (Len(frame.issued) >= 2 /\ frame.overlap /\ frame.pending = {}) =>
        IF view = "stake"
        THEN /\ usdcBalance = LastIssued.balance
             /\ collateralStatus = LastIssued.status
        ELSE /\ dUsdcBalance = LastIssued.balance
             /\ LastIssued.creditInfo # Null => creditData = LastIssued.creditInfo

\* C27: in the staking view, until the first refresh has completed (balance
\* 0, status null) no payload is or can be handed to the signer: each of the
\* three handlers refuses the amount typed, whatever it is.
C27_NoSignerBeforeFirstRefresh ==
    (view = "stake" /\ fetched = Null) =>
        /\ usdcBalance = Zero
        /\ collateralStatus = Null
        /\ ops = <<>>
        /\ ~ENABLED (handleStakeCollateral /\ ops' # ops)
        /\ ~ENABLED (handleAddCollateral /\ ops' # ops)
        /\ ~ENABLED (handleWithdrawCollateral /\ ops' # ops)

\* C27 witness: connected, the first refresh still awaited, a stake of 1 USDC
\* was refused for the balance
C27_Witness ==
    /\ view = "stake"
    /\ connected
    /\ fetched = Null
    /\ loadingData
    /\ amount = TextOf(Usdc(1, 0))
    /\ error = "Insufficient USDC balance"
    /\ ops = <<>>

\* C28: in the staking view the error message and the success message are
\* never both set.
C28_ErrorOrSuccess ==
    view = "stake" => (error = NoMsg \/ success = NoMsg)

(***************************************************************************)
(* The dashboard's overdue mark (Dashboard.tsx 468-473, 543-544)           *)
(***************************************************************************)
SecondsPerDay == 86400

\* Math.ceil(a / b) for b > 0
MathCeilDiv(a, b) == -((-a) \div b)

\* getDaysUntilDue at the clock reading now = Math.floor(Date.now() / 1000)
getDaysUntilDue(cd, now) ==
    IF cd = Null \/ cd.repaymentDueDate = 0 THEN 0
    ELSE MathCeilDiv(cd.repaymentDueDate - now, SecondsPerDay)

\* creditData?.borrowed ? daysUntilDue < 0 : false
isOverdue(cd, now) ==
    IF cd # Null /\ ~IsFalsy(cd.borrowed) THEN getDaysUntilDue(cd, now) < 0
    ELSE FALSE

\* the positions rendered: none, and each of borrowed 0 / 100 with the due
\* date unset / set
OverduePositions ==
    {Null} \cup
    {[ZeroPosition EXCEPT !.borrowed = b, !.repaymentDueDate = d, !.isActive = TRUE] :
        b \in {Zero, Usdc(100, 0)}, d \in {0, 1700000000}}

\* clock readings around the due date and one day after it
ClockReadings ==
    {1700000000 + o : o \in {-86401, -86400, -1, 0, 1, 43200, 86399, 86400, 86401, 172800}}

OverdueInit ==
    /\ NoView
    /\ frame \in {[fn |-> "isOverdue", creditData |-> cd, now |-> n, rendered |-> FALSE,
                   at |-> 0, daysUntilDue |-> 0, isOverdue |-> FALSE] :
                     cd \in OverduePositions, n \in ClockReadings}

\* time passes
ClockAdvance ==
    /\ \E n \in ClockReadings :
          /\ n > frame.now
          /\ frame' = [frame EXCEPT !.now = n]
    /\ UNCHANGED offFrame

\* a render of the dashboard at the current clock reading
RenderOverdue ==
    /\ frame.at < frame.now
    /\ frame' = [frame EXCEPT
                    !.rendered = TRUE,
                    !.at = frame.now,
                    !.daysUntilDue = getDaysUntilDue(frame.creditData, frame.now),
                    !.isOverdue = isOverdue(frame.creditData, frame.now)]
    /\ UNCHANGED offFrame

OverdueNext == ClockAdvance \/ RenderOverdue

OverdueSpec == OverdueInit /\ [][OverdueNext]_vars

\* C29: the loan is marked overdue exactly when the borrowed principal is
\* > 0, a due date is set and the time of the render is later than
\* repaymentDueDate.
C29_OverdueExactlyWhenLate ==
    frame.rendered =>
        (frame.isOverdue <=>
            /\ frame.creditData # Null
            /\ Gt(frame.creditData.borrowed, Zero)
            /\ frame.creditData.repaymentDueDate # 0
            /\ frame.at > frame.creditData.repaymentDueDate)

(***************************************************************************)
(* checkAllContractsInitialized (contractUtils.ts 217-269)                 *)
(***************************************************************************)
\* the five probes, in the order of the Promise.allSettled array
InitProbes ==
    <<"credit_manager::is_paused", "lending_pool::get_total_deposited",
      "reputation_manager::get_user_count", "credit_manager::get_fixed_interest_rate",
      "credit_manager::get_all_borrowers">>

\* Object.values(status): the values in the order the keys were written
ObjectValues(status) ==
    <<status.creditManager, status.lendingPool, status.reputationManager,
      status.fixedInterestRate, status.borrowersList, status.allInitialized>>

\* the status object built from the settled results, and its allInitialized
\* overwritten by every(v => v === true) over the object's own values
checkAllContractsInitialized(results) ==
    LET status == [creditManager     |-> results[1] = "fulfilled",
                   lendingPool       |-> results[2] = "fulfilled",
                   reputationManager |-> results[3] = "fulfilled",
                   fixedInterestRate |-> results[4] = "fulfilled",
                   borrowersList     |-> results[5] = "fulfilled",
                   allInitialized    |-> FALSE]
    IN  [status EXCEPT !.allInitialized =
            \A k \in 1..Len(ObjectValues(status)) : ObjectValues(status)[k] = TRUE]

InitCheckInit ==
    /\ NoView
    /\ frame = [fn |-> "checkAllContractsInitialized", pc |-> "await",
                results |-> [k \in 1..Len(InitProbes) |-> "pending"], status |-> Null]

\* one of the probe queries settles
SettleProbe ==
    /\ frame.pc = "await"
    /\ \E k \in 1..Len(InitProbes), outcome \in {"fulfilled", "rejected"} :
          /\ frame.results[k] = "pending"
          /\ frame' = [frame EXCEPT !.results[k] = outcome]
    /\ UNCHANGED offFrame

\* Promise.allSettled resolves once every probe has settled; the function
\* returns its status object
ReturnStatus ==
    /\ frame.pc = "await"
    /\ \A k \in 1..Len(InitProbes) : frame.results[k] # "pending"
    /\ frame' = [frame EXCEPT !.pc = "done",
                              !.status = checkAllContractsInitialized(frame.results)]
    /\ UNCHANGED offFrame

InitCheckNext == SettleProbe \/ ReturnStatus

InitCheckSpec == InitCheckInit /\ [][InitCheckNext]_vars

\* C30: allInitialized is true if and only if all five probes are
\* fulfilled, and each flag equals the fulfilled status of its own probe.
C30_AllInitializedIffAllFulfilled ==
    frame.pc = "done" =>
        /\ frame.status.allInitialized
              <=> (\A k \in 1..Len(InitProbes) : frame.results[k] = "fulfilled")
        /\ frame.status.creditManager <=> frame.results[1] = "fulfilled"
        /\ frame.status.lendingPool <=> frame.results[2] = "fulfilled"
        /\ frame.status.reputationManager <=> frame.results[3] = "fulfilled"
        /\ frame.status.fixedInterestRate <=> frame.results[4] = "fulfilled"
        /\ frame.status.borrowersList <=> frame.results[5] = "fulfilled"

====
